---- MODULE Spec2Model ----
(***************************************************************************)
(* A model of dialogLLM's queue-mediated request/response protocol:        *)
(*   QueueConnectionManager   src/src/dialogllm/core/connection.py         *)
(*   LLMClient (the agent)    src/src/dialogllm/core/client.py             *)
(*   ConversationManager      src/src/dialogllm/queue/conversation_manager.py *)
(*   LLMWorker                src/src/worker.py                            *)
(* The broker (Redis) is a set of named lists with rpush / blpop / ping.   *)
(* Python dicts are functions with string domains; a raised exception is   *)
(* the name of its class, "" meaning that nothing was raised.              *)
(***************************************************************************)
EXTENDS Naturals, Sequences, FiniteSets, TLC

VARIABLES
  queues,    \* the broker's lists: queue name -> sequence of wire payloads
  broker,    \* how the broker answers: "up", "refused" or "timeout"
  now,       \* the wall clock, in whole seconds
  qm,        \* component -> its QueueConnectionManager (_redis_client, task_queue, response_queue)
  verified,  \* component -> a connect() has succeeded and no disconnect() has run since
  last,      \* the last call made by an owner on a QueueConnectionManager or on the
             \* ConversationManager: who, what, what it raised, the broker commands it issued
  loop,      \* component -> its run loop / message_consumer(): pc, payload in hand, what run() raised
  call,      \* agent -> its generate_response call in progress or finished
  cm,        \* the ConversationManager: messages, active_personas, conversation_active
  handled,   \* the last payload a run loop processed: by whom, from which list, whether it
             \* was a Task Envelope, whether it decodes into a Message, the response
             \* queue it named, whether the model
             \* backend was invoked, and the list the response went to
  notified,  \* the last add_message of the coordinator: the message, the callbacks
             \* registered then, how each behaved, the callbacks invoked in order, and
             \* what add_message raised
  dialogue,  \* main()'s dialogue: where it stands, its start_time and exchange_count,
             \* whose turn it is, what it raised
  dstate,    \* a DialogueState and what should_conclude() answered last
  parsed     \* the last parse_persona_response: the content given, what it returned or raised

vars == <<queues, broker, now, qm, verified, last, loop, call, cm, handled, notified,
          dialogue, dstate, parsed>>

-----------------------------------------------------------------------------
(* Bounds of the model *)

MaxQueue == 2      \* payloads a shared broker list (llm_tasks, llm_responses) holds at most
MaxPending == 1    \* payloads an agent's own list (llm_tasks_<id>, llm_responses_<id>) holds at most
MaxClock == 1      \* the clock ticks up to this second
MaxHist == 2       \* messages the history holds at most
MaxObservers == 2  \* callbacks registered at most
MaxExchanges == 1  \* the largest configured exchange_count
MaxMinutes == 1    \* the largest configured duration_minutes

-----------------------------------------------------------------------------
(* Values *)

None == "<None>"                   \* Python's None / a missing JSON value
NoError == ""                      \* nothing was raised

Agents == {"A", "B"}               \* client ids of the participant agents
Director == "Director"             \* client id of the director's LLMClient
Clients == Agents \cup {Director}  \* the LLMClients
Components == {"conn", "coordinator", "worker"} \cup Clients

\* (mutant) every participant is given the global task queue
SharedTaskQueue(id) == "llm_tasks"

\* f"llm_tasks_{id}" / f"llm_responses_{id}"
TaskQueueOf(id) == "llm_tasks_" \o id
ResponseQueueOf(id) == "llm_responses_" \o id

DEFAULT_TASK_QUEUE == "llm_tasks"
DEFAULT_RESPONSE_QUEUE == "llm_responses"

QueueNames ==
  {DEFAULT_TASK_QUEUE, DEFAULT_RESPONSE_QUEUE}
    \cup {TaskQueueOf(id) : id \in Clients} \cup {ResponseQueueOf(id) : id \in Clients}

\* dict.get(k, default), dict.update(e)
Get(d, k, default) == IF k \in DOMAIN d THEN d[k] ELSE default
Update(d, e) == [k \in (DOMAIN d) \cup (DOMAIN e) |-> IF k \in DOMAIN e THEN e[k] ELSE d[k]]
EmptyDict == [k \in {} |-> None]

\* json.dumps(message).encode('utf-8'): the wire payload of a dict
json_dumps(d) == [kind |-> "json", body |-> d]
\* bytes on the wire that are not JSON
RawBytes == [kind |-> "raw", body |-> EmptyDict]
\* no payload: what a pop that timed out returns (None)
NoPayload == [kind |-> "none", body |-> EmptyDict]
\* json.loads(data.decode('utf-8')): the dict, or JSONDecodeError
json_loads(p) ==
  IF p.kind = "json" THEN [raised |-> NoError, value |-> p.body]
  ELSE [raised |-> "JSONDecodeError", value |-> EmptyDict]

-----------------------------------------------------------------------------
(* The broker *)

BrokerStates == {"up", "refused", "timeout"}

\* what a command sent to the broker raises in the client library
BrokerError == IF broker = "refused" THEN "redis.ConnectionError"
               ELSE IF broker = "timeout" THEN "redis.TimeoutError"
               ELSE NoError

\* RPUSH: append at the tail of the list
\* (mutant) LPUSH: insert at the head of the list
lpush(qs, q, data) == [qs EXCEPT ![q] = <<data>> \o @]

rpush(qs, q, data) == [qs EXCEPT ![q] = Append(@, data)]
\* BLPOP: remove the head of the list
blpop(qs, q) == [qs EXCEPT ![q] = Tail(@)]

-----------------------------------------------------------------------------
(* QueueConnectionManager *)

\* QueueConnectionManager.__init__(redis_url): no client, the default pair
QueueConnectionManagerInit ==
  [ redis_client |-> None,
    task_queue |-> DEFAULT_TASK_QUEUE,
    response_queue |-> DEFAULT_RESPONSE_QUEUE ]

\* QueueConnectionManager(redis_url, task_queue=..., response_queue=...), the
\* constructor LLMClient.__init__ calls and the tests of LLMClient rely on:
\* the pair given by the caller replaces the default pair
QueueConnectionManagerInitNamed(task_queue, response_queue) ==
  [ QueueConnectionManagerInit EXCEPT !.task_queue = task_queue,
                                      !.response_queue = response_queue ]

\* QueueConnectionManager.__init__ as it stands in connection.py, called with
\* the keyword arguments kwargs besides redis_url: it takes none
queue_manager_init(kwargs) ==
  IF DOMAIN kwargs # {} THEN [raised |-> "TypeError", value |-> QueueConnectionManagerInit]
  ELSE [raised |-> NoError, value |-> QueueConnectionManagerInit]

\* what connect() raises for what ping() raised: only redis.ConnectionError is
\* caught and raised again as the builtin ConnectionError
connect_raises(ping) ==
  IF ping = "redis.ConnectionError" THEN "ConnectionError" ELSE ping

\* connect(): from_url() is assigned to _redis_client before the ping
connect(c) ==
  [ qm |-> [qm EXCEPT ![c].redis_client = "client"],
    raised |-> connect_raises(BrokerError),
    cmds |-> <<"ping">> ]

\* (mutant) disconnect() that closes but keeps the closed client
disconnect_keeps_client(q, c, close_error) ==
  IF q[c].redis_client # None
  THEN [ qm |-> q, raised |-> close_error, cmds |-> <<"close">> ]
  ELSE [ qm |-> q, raised |-> NoError, cmds |-> <<>> ]

\* disconnect() of component c, q being the queue managers: close() only when a
\* client is held; a raising close() leaves the client in place
disconnect(q, c, close_error) ==
  IF q[c].redis_client # None
  THEN IF close_error = NoError
       THEN [ qm |-> [q EXCEPT ![c].redis_client = None], raised |-> NoError,
              cmds |-> <<"close">> ]
       ELSE [ qm |-> q, raised |-> close_error, cmds |-> <<"close">> ]
  ELSE [ qm |-> q, raised |-> NoError, cmds |-> <<>> ]

\* the guard of publish_message / get_message / message_consumer
not_connected(c) == qm[c].redis_client = None

\* publish_message(message, queue_name) on the lists qs
publish_message(c, qs, message, queue_name) ==
  IF not_connected(c)
  THEN [ queues |-> qs, raised |-> "Exception", cmds |-> <<>> ]
  ELSE LET queue == IF queue_name \in {None, ""} THEN qm[c].task_queue ELSE queue_name IN
       IF BrokerError # NoError
       THEN [ queues |-> qs, raised |-> BrokerError, cmds |-> <<"rpush">> ]
       ELSE [ queues |-> rpush(qs, queue, json_dumps(message)), raised |-> NoError,
              cmds |-> <<"rpush">> ]

\* (mutant) get_message that raises when the wait times out
get_message_raises_on_timeout(c, qs, queue_name) ==
  IF not_connected(c)
  THEN [ queues |-> qs, raised |-> "Exception", value |-> NoPayload, cmds |-> <<>> ]
  ELSE LET queue == IF queue_name \in {None, ""} THEN qm[c].response_queue ELSE queue_name IN
       IF broker # "up" \/ qs[queue] = <<>>
       THEN [ queues |-> qs, raised |-> "TimeoutError", value |-> NoPayload,
              cmds |-> <<"blpop">> ]
       ELSE [ queues |-> blpop(qs, queue), raised |-> NoError, value |-> Head(qs[queue]),
              cmds |-> <<"blpop">> ]

\* get_message(queue_name, timeout): the head of the list, None when the wait
\* times out (empty list, or a broker that does not answer)
get_message(c, qs, queue_name) ==
  IF not_connected(c)
  THEN [ queues |-> qs, raised |-> "Exception", value |-> NoPayload, cmds |-> <<>> ]
  ELSE LET queue == IF queue_name \in {None, ""} THEN qm[c].response_queue ELSE queue_name IN
       IF broker = "refused"
       THEN [ queues |-> qs, raised |-> BrokerError, value |-> NoPayload, cmds |-> <<"blpop">> ]
       ELSE IF broker = "timeout" \/ qs[queue] = <<>>
       THEN [ queues |-> qs, raised |-> NoError, value |-> NoPayload, cmds |-> <<"blpop">> ]
       ELSE [ queues |-> blpop(qs, queue), raised |-> NoError, value |-> Head(qs[queue]),
              cmds |-> <<"blpop">> ]

\* the record of one QueueConnectionManager call
\* (held: a client was held when the call was made;
\* value: what the call returned, for get_message)
Call(c, op, r) ==
  [c |-> c, op |-> op, held |-> ~not_connected(c), raised |-> r.raised, cmds |-> r.cmds,
   value |-> IF "value" \in DOMAIN r THEN r.value ELSE NoPayload]
NoCall == [c |-> None, op |-> None, held |-> FALSE, raised |-> NoError, cmds |-> <<>>,
           value |-> NoPayload]

\* no list grows beyond the bound of the model
Capacity(q) ==
  IF q \in {DEFAULT_TASK_QUEUE, DEFAULT_RESPONSE_QUEUE} THEN MaxQueue ELSE MaxPending
Bounded(qs) == \A q \in QueueNames : Len(qs[q]) <= Capacity(q)

-----------------------------------------------------------------------------
(* Message (pydantic model): content, role, optional metadata *)

Roles == {"system", "user", "assistant", "manager"}
NoMetadata == [k \in {None} |-> None]      \* metadata = None

\* Message(**d): content and role are required, role is one of the enum,
\* keys that are no field of the model are ignored
MessageOf(d) ==
  IF "content" \notin DOMAIN d \/ "role" \notin DOMAIN d
  THEN [raised |-> "ValidationError", value |-> EmptyDict]
  ELSE IF d["role"] \notin Roles \/ d["content"] = None
  THEN [raised |-> "ValidationError", value |-> EmptyDict]
  ELSE [raised |-> NoError,
        value |-> [content |-> d["content"], role |-> d["role"],
                   metadata |-> Get(d, "metadata", NoMetadata)]]

-----------------------------------------------------------------------------
(* HealthMonitor *)

\* _check_queue_connection of the monitor of client a: ping() on the client's
\* _redis_client; every Exception (the broker's error, or AttributeError when
\* no client is held) gives "disconnected"
check_queue_connection(a) ==
  IF not_connected(a) \/ BrokerError # NoError THEN "disconnected" ELSE "connected"

\* (mutant) check_health that reports the overall status as healthy whatever
\* the connection
check_health_always_healthy(a) ==
  [status |-> "healthy", queue_connection |-> check_queue_connection(a)]

\* check_health: the report
check_health(a) ==
  LET queue_status == check_queue_connection(a) IN
  [status |-> IF queue_status = "connected" THEN "healthy" ELSE "unhealthy",
   queue_connection |-> queue_status]

-----------------------------------------------------------------------------
(* DialogueState (pydantic model): config, start_time, exchange_count,
   is_concluded *)

\* (mutant) the duration counts as exceeded only after it has passed
is_time_exceeded_after(d) == now > d.start_time + d.config.duration_minutes * 60

\* is_time_exceeded: (datetime.now() - start_time).total_seconds()
\*                     >= config.duration_minutes * 60
\* (start_time is a datetime, the field is not Optional, and a datetime is
\* always truthy: the guard `if not self.start_time` never returns)
is_time_exceeded(d) == now >= d.start_time + d.config.duration_minutes * 60

is_exchanges_exceeded(d) == d.exchange_count >= d.config.exchange_count

should_conclude(d) == is_time_exceeded(d) \/ is_exchanges_exceeded(d) \/ d.is_concluded

-----------------------------------------------------------------------------
(* PersonaParser.  A content is modelled by what the parser looks at: whether
   it is JSON and then the decoded value, and its non-empty stripped lines,
   each a section header ("Background:"), a field line ("Historical Context:
   ...") or another line.  A list, in a text or in JSON, is modelled by the
   text that gives its items separated by commas; all texts are shorter than
   100 characters. *)

SectionNames == <<"background", "communication", "interaction">>

EXPECTED_SECTIONS ==
  [ background |-> <<"historical_context", "expertise_areas", "philosophical_stance">>,
    communication |-> <<"language_pattern", "reasoning_approach", "typical_references">>,
    interaction |-> <<"response_structure", "engagement_pattern", "knowledge_boundaries">> ]

ListFields == {"expertise_areas", "typical_references", "knowledge_boundaries"}

\* len(text), for the texts of the model
TextLength ==
  ("" :> 0) @@
  ("Unknown" :> 7) @@
  ("TestModel" :> 9) @@
  ("test-model" :> 10) @@
  ("test-provider" :> 13) @@
  ("Scholar" :> 7) @@
  ("Academic Historian" :> 18) @@
  ("Formal and analytical" :> 21) @@
  ("Default historical context" :> 26) @@
  ("General knowledge" :> 17) @@
  ("Balanced and objective approach" :> 31) @@
  ("Clear and concise communication" :> 31) @@
  ("Logical and structured thinking" :> 31) @@
  ("Organized and systematic responses" :> 34) @@
  ("Professional and respectful engagement" :> 38) @@
  ("Decades of academic research" :> 28)
StrLen(text) == TextLength[text]

\* text[:100]: the text itself, every text of the model being shorter
First100(text) == text

\* the label of a field in a text ("Historical Context"), and
\* key.lower().replace(" ", "_") of a label
Labels ==
  [ historical_context |-> "Historical Context", expertise_areas |-> "Expertise Areas",
    philosophical_stance |-> "Philosophical Stance", language_pattern |-> "Language Pattern",
    reasoning_approach |-> "Reasoning Approach", typical_references |-> "Typical References",
    response_structure |-> "Response Structure", engagement_pattern |-> "Engagement Pattern",
    knowledge_boundaries |-> "Knowledge Boundaries" ]
FieldKey(label) == CHOOSE f \in DOMAIN Labels : Labels[f] = label

\* line.lower().startswith(section_name.lower() + ":")
StartsSection(line, section_name) ==
  "header" \in DOMAIN line /\ line.header = section_name
\* any(s.lower() + ":" in line.lower() for s in EXPECTED_SECTIONS)
NamesASection(line) == "header" \in DOMAIN line

\* the loop of _extract_section over the lines from i on: section_start,
\* section_end (0: not found)
RECURSIVE section_bounds(_, _, _, _)
section_bounds(lines, section_name, i, section_start) ==
  IF i > Len(lines) THEN [section_start |-> section_start, section_end |-> 0]
  ELSE IF StartsSection(lines[i], section_name)
  THEN section_bounds(lines, section_name, i + 1, i)
  ELSE IF section_start # 0 /\ i > section_start /\ NamesASection(lines[i])
  THEN [section_start |-> section_start, section_end |-> i]
  ELSE section_bounds(lines, section_name, i + 1, section_start)

\* _parse_section_content: a line with a colon opens a field, key lowered with
\* underscores for spaces; a field without any value is dropped when it is the last
RECURSIVE parse_section_content(_, _)
parse_section_content(lines, result) ==
  IF lines = <<>> THEN result
  ELSE LET line == Head(lines) IN
       IF "label" \in DOMAIN line
       THEN parse_section_content(Tail(lines),
                                  Update(result, [k \in {FieldKey(line.label)} |-> line.value]))
       ELSE parse_section_content(Tail(lines), result)

\* _extract_section: the fields of the section, {} when it has no header
extract_section(lines, section_name) ==
  LET b == section_bounds(lines, section_name, 1, 0)
      section_end == IF b.section_end = 0 THEN Len(lines) + 1 ELSE b.section_end
  IN IF b.section_start = 0 THEN EmptyDict
     ELSE parse_section_content(SubSeq(lines, b.section_start + 1, section_end - 1), EmptyDict)

\* the items of the lists of the model
Items ==
  ("" :> <<>>) @@ ("General knowledge" :> <<"General knowledge">>) @@
  ("Medieval Europe, Ancient Rome" :> <<"Medieval Europe", "Ancient Rome">>)

\* _parse_list_field: split at the commas, strip, drop the empty items
parse_list_field(text) == SelectSeq(Items[text], LAMBDA item : item # "")

\* pydantic: PersonaBackground, CommunicationStyle, InteractionGuidelines and
\* PersonaConfig accept the values (min_length, min_items)
valid_background(b) ==
  /\ StrLen(b.historical_context) >= 10 /\ Len(b.expertise_areas) >= 1
  /\ StrLen(b.philosophical_stance) >= 10
valid_communication(c) ==
  StrLen(c.language_pattern) >= 10 /\ StrLen(c.reasoning_approach) >= 10
valid_interaction(i) ==
  StrLen(i.response_structure) >= 10 /\ StrLen(i.engagement_pattern) >= 10
valid_persona(p) ==
  /\ StrLen(p.name) >= 1 /\ StrLen(p.role) >= 10 /\ StrLen(p.style) >= 10
  /\ StrLen(p.model_name) >= 1 /\ StrLen(p.model_provider) >= 1

\* what a parse returns: (PersonaConfig, warnings), or PersonaParsingError
Parsed(persona, warnings) ==
  IF /\ valid_background(persona.background) /\ valid_communication(persona.communication)
     /\ valid_interaction(persona.interaction) /\ valid_persona(persona)
  THEN [raised |-> NoError, persona |-> persona, warnings |-> warnings]
  ELSE [raised |-> "PersonaParsingError", persona |-> EmptyDict, warnings |-> <<>>]

\* _parse_from_json(data, model_config): defaults for what is absent, no warning
parse_from_json(data, model_config) ==
  LET b == Get(data, "background", EmptyDict)
      c == Get(data, "communication", EmptyDict)
      i == Get(data, "interaction", EmptyDict)
      background ==
        [historical_context |-> Get(b, "historical_context", "Default historical context"),
         expertise_areas |-> Items[Get(b, "expertise_areas", "General knowledge")],
         philosophical_stance |-> Get(b, "philosophical_stance", "Balanced and objective approach")]
      communication ==
        [language_pattern |-> Get(c, "language_pattern", "Clear and concise communication"),
         reasoning_approach |-> Get(c, "reasoning_approach", "Logical and structured thinking"),
         typical_references |-> Items[Get(c, "typical_references", "")]]
      interaction ==
        [response_structure |-> Get(i, "response_structure", "Organized and systematic responses"),
         engagement_pattern |-> Get(i, "engagement_pattern", "Professional and respectful engagement"),
         knowledge_boundaries |-> Items[Get(i, "knowledge_boundaries", "")]]
  IN Parsed([name |-> Get(data, "name", Get(model_config, "name", "Unknown")),
             role |-> Get(data, "role", First100(background.historical_context)),
             style |-> Get(data, "style", First100(communication.language_pattern)),
             model_name |-> model_config.model_name,
             model_provider |-> model_config.model_provider,
             temperature |-> model_config.temperature,
             background |-> background, communication |-> communication,
             interaction |-> interaction], <<>>)

\* the warnings of the text path: one for each section with missing fields,
\* naming them
RECURSIVE missing_warnings(_, _)
missing_warnings(sections, names) ==
  IF names = <<>> THEN <<>>
  ELSE LET section == Head(names)
           missing == SelectSeq(EXPECTED_SECTIONS[section],
                                LAMBDA f : f \notin DOMAIN sections[section])
       IN (IF missing # <<>> THEN <<[section |-> section, missing |-> missing]>> ELSE <<>>)
            \o missing_warnings(sections, Tail(names))

\* parse_persona_response(content, model_config)
parse_persona_response(content, model_config) ==
  IF content.json /\ content.data # EmptyDict
  THEN parse_from_json(content.data, model_config)
  ELSE
  LET sections == [ background |-> extract_section(content.lines, "Background"),
                    communication |-> extract_section(content.lines, "Communication"),
                    interaction |-> extract_section(content.lines, "Interaction") ]
      warnings == missing_warnings(sections, SectionNames)
      b == sections.background
      c == sections.communication
      i == sections.interaction
      background ==
        [historical_context |-> Get(b, "historical_context", "Default historical context"),
         expertise_areas |->
           parse_list_field(Get(b, "expertise_areas", "General knowledge")),
         philosophical_stance |-> Get(b, "philosophical_stance", "Balanced and objective approach")]
      communication ==
        [language_pattern |-> Get(c, "language_pattern", "Clear and concise communication"),
         reasoning_approach |-> Get(c, "reasoning_approach", "Logical and structured thinking"),
         typical_references |-> parse_list_field(Get(c, "typical_references", ""))]
      interaction ==
        [response_structure |-> Get(i, "response_structure", "Organized and systematic responses"),
         engagement_pattern |-> Get(i, "engagement_pattern", "Professional and respectful engagement"),
         knowledge_boundaries |-> parse_list_field(Get(i, "knowledge_boundaries", ""))]
  IN Parsed([name |-> Get(model_config, "name", "Unknown"),
             role |-> First100(Get(b, "historical_context", "")),
             style |-> First100(Get(c, "language_pattern", "")),
             model_name |-> model_config.model_name,
             model_provider |-> model_config.model_provider,
             temperature |-> model_config.temperature,
             background |-> background, communication |-> communication,
             interaction |-> interaction], warnings)

-----------------------------------------------------------------------------
(* LLMClient: the participant agent *)

\* LLMClient.__init__: the queue manager of agent a.  The call passes
\* task_queue= and response_queue=, which QueueConnectionManager.__init__ as it
\* stands in connection.py does not take (it raises TypeError); the tests build
\* LLMClient this way and use its queue_manager, so the agent is modelled with
\* the constructor its callers assume.
LLMClientInit(a) == QueueConnectionManagerInitNamed(TaskQueueOf(a), ResponseQueueOf(a))

\* LLMClient.__init__(redis_url, client_id=a) as it stands in client.py: the
\* queue names it derives, and what the construction of its queue manager raises
llm_client_init(a) ==
  LET task_queue == TaskQueueOf(a)
      response_queue == ResponseQueueOf(a)
      q == queue_manager_init([task_queue |-> task_queue, response_queue |-> response_queue])
  IN [raised |-> q.raised, task_queue |-> task_queue, response_queue |-> response_queue,
      queue_manager |-> q.value]

\* LLMClient.disconnect: what queue_manager.disconnect() raises is logged and
\* swallowed
llm_client_disconnect(q, a, close_error) ==
  LET d == disconnect(q, a, close_error) IN [qm |-> d.qm, raised |-> NoError, cmds |-> d.cmds]

\* f"{self.client_id}_{int(datetime.now().timestamp())}"
RequestId(a) == a \o "_" \o ToString(now)

\* the dict generate_response builds and send_message completes
TaskEnvelope(a, prompt, role, metadata) ==
  Update(Update([role |-> role, content |-> prompt, timestamp |-> now,
                 request_id |-> RequestId(a)], metadata),
         [client_id |-> a, response_queue |-> ResponseQueueOf(a)])

\* get_response: json.loads and Message(**dict) on the popped payload
get_response(r) ==
  IF r.raised # NoError THEN [raised |-> r.raised, value |-> EmptyDict, none |-> FALSE]
  ELSE IF r.value = NoPayload THEN [raised |-> NoError, value |-> EmptyDict, none |-> TRUE]
  ELSE LET j == json_loads(r.value) IN
       IF j.raised # NoError THEN [raised |-> j.raised, value |-> EmptyDict, none |-> FALSE]
       ELSE LET m == MessageOf(j.value) IN
            [raised |-> m.raised, value |-> m.value, none |-> FALSE]

\* (mutant) generate_response that returns the missing response instead of raising
generate_response_returns_none(r) ==
  LET g == get_response(r) IN [raised |-> g.raised, value |-> g.value]

\* generate_response after the publish: the response, TimeoutError when
\* get_response returned None, or whatever get_response raised
generate_response_result(r) ==
  LET g == get_response(r) IN
  IF g.raised = NoError /\ g.none THEN [raised |-> "TimeoutError", value |-> EmptyDict]
  ELSE [raised |-> g.raised, value |-> g.value]

\* LLMClient.process_message: a 'generate_response' task gets a simulated
\* response, published to the agent's own response queue; anything else is
\* logged; nothing is raised
client_process_message(a, qs, data) ==
  LET j == json_loads(data) IN
  IF j.raised # NoError THEN [queues |-> qs, sent |-> <<>>]
  ELSE IF Get(j.value, "task", None) = "generate_response"
  THEN LET response == [content |-> "This is a simulated response from " \o a,
                        role |-> "assistant", metadata |-> [client_id |-> a]]
           p == publish_message(a, qs, response, qm[a].response_queue)
       IN [queues |-> p.queues,
           sent |-> IF p.raised = NoError THEN <<qm[a].response_queue>> ELSE <<>>]
  ELSE [queues |-> qs, sent |-> <<>>]

-----------------------------------------------------------------------------
(* LLMWorker *)

BackendFails == "<HTTPError>"          \* ollama_client.generate raises
BackendOutcomes == {"Hi", BackendFails}

\* (mutant) process_message that sends its error envelope to the default
\* response queue instead of the queue the task names
worker_process_message_error_to_default(qs, data, backend) ==
  LET j == json_loads(data) IN
  IF j.raised # NoError
  THEN \* the except clause tests `'response_queue' in message` with message unbound
       [queues |-> qs, raised |-> "UnboundLocalError", invoked |-> FALSE, sent |-> <<>>]
  ELSE
    LET message == j.value
        model == Get(message, "model_name", "llama2")
        has_content == "content" \in DOMAIN message
        response_message == [role |-> "assistant", content |-> backend, timestamp |-> now,
                             request_id |-> Get(message, "request_id", None), model |-> model]
        response_queue == Get(message, "response_queue", DEFAULT_RESPONSE_QUEUE)
        p == publish_message("worker", qs, response_message, response_queue)
        error == IF ~has_content THEN "KeyError"
                 ELSE IF backend = BackendFails THEN "HTTPError"
                 ELSE p.raised
    IN
    IF error = NoError
    THEN [queues |-> p.queues, raised |-> NoError, invoked |-> TRUE,
          sent |-> <<IF response_queue \in {None, ""} THEN qm["worker"].task_queue
                     ELSE response_queue>>]
    ELSE IF "response_queue" \in DOMAIN message /\ "request_id" \in DOMAIN message
    THEN LET error_message == [role |-> "error", content |-> error, timestamp |-> now,
                               request_id |-> message["request_id"]]
             e == publish_message("worker", qs, error_message, DEFAULT_RESPONSE_QUEUE)
         IN [queues |-> e.queues, raised |-> NoError, invoked |-> has_content,
             sent |-> <<>>]
    ELSE [queues |-> qs, raised |-> NoError, invoked |-> has_content, sent |-> <<>>]

\* LLMWorker.process_message with the backend answering `backend`
worker_process_message(qs, data, backend) ==
  LET j == json_loads(data) IN
  IF j.raised # NoError
  THEN \* the except clause tests `'response_queue' in message` with message unbound
       [queues |-> qs, raised |-> "UnboundLocalError", invoked |-> FALSE, sent |-> <<>>]
  ELSE
    LET message == j.value
        model == Get(message, "model_name", "llama2")
        has_content == "content" \in DOMAIN message
        response_message == [role |-> "assistant", content |-> backend, timestamp |-> now,
                             request_id |-> Get(message, "request_id", None), model |-> model]
        response_queue == Get(message, "response_queue", DEFAULT_RESPONSE_QUEUE)
        p == publish_message("worker", qs, response_message, response_queue)
        error == IF ~has_content THEN "KeyError"
                 ELSE IF backend = BackendFails THEN "HTTPError"
                 ELSE p.raised
    IN
    IF error = NoError
    THEN [queues |-> p.queues, raised |-> NoError, invoked |-> TRUE,
          sent |-> <<IF response_queue \in {None, ""} THEN qm["worker"].task_queue
                     ELSE response_queue>>]
    ELSE IF "response_queue" \in DOMAIN message /\ "request_id" \in DOMAIN message
    THEN LET error_message == [role |-> "error", content |-> error, timestamp |-> now,
                               request_id |-> message["request_id"]]
             e == publish_message("worker", qs, error_message, message["response_queue"])
         IN [queues |-> e.queues, raised |-> NoError, invoked |-> has_content,
             sent |-> <<>>]
    ELSE [queues |-> qs, raised |-> NoError, invoked |-> has_content, sent |-> <<>>]

-----------------------------------------------------------------------------
(* ConversationManager: the coordinator *)

\* active_personas[id] = value: a dict keeps insertion order, an existing key
\* keeps its place
DictSet(d, id, value) ==
  IF \E i \in 1..Len(d) : d[i]["id"] = id
  THEN [i \in 1..Len(d) |-> IF d[i]["id"] = id THEN value ELSE d[i]]
  ELSE Append(d, value)
Keys(d) == {d[i]["id"] : i \in 1..Len(d)}

\* the loop of start_conversation; persona['id'] raises KeyError
RECURSIVE insert_personas(_, _)
insert_personas(active, personas) ==
  IF personas = <<>> THEN [active |-> active, raised |-> NoError]
  ELSE LET persona == Head(personas) IN
       IF "id" \notin DOMAIN persona THEN [active |-> active, raised |-> "KeyError"]
       ELSE insert_personas(
              DictSet(active, persona["id"], Update(persona, [last_message_time |-> now])),
              Tail(personas))

\* start_conversation: clear, insert, mark active; an exception is logged
start_conversation(c, personas) ==
  LET r == insert_personas(<<>>, personas) IN
  [c EXCEPT !.active_personas = r.active,
            !.conversation_active = IF r.raised = NoError THEN TRUE ELSE @]

\* an end_conversation that forgets to clear the participants
end_conversation_keeps_personas(c) == [c EXCEPT !.conversation_active = FALSE]

\* end_conversation
end_conversation(c) == [c EXCEPT !.active_personas = <<>>, !.conversation_active = FALSE]

\* the envelope handle_user_message publishes for persona_id
RoutedEnvelope(content, persona_id) ==
  [role |-> "user", content |-> content, timestamp |-> now, persona_id |-> persona_id,
   response_queue |-> ResponseQueueOf(persona_id)]

\* the loop of handle_user_message over active_personas.items(); a publish that
\* raises ends the loop (the exception is logged by the handler). faults: the
\* participants at whose publish the connection to the broker drops
\* (the handler awaits every publish, the broker may fail at any of them)
RECURSIVE route(_, _, _, _)
route(qs, personas, content, faults) ==
  IF personas = <<>> THEN [queues |-> qs, raised |-> NoError]
  ELSE LET persona_id == Head(personas)["id"]
           p == IF persona_id \in faults /\ ~not_connected("coordinator")
                THEN [queues |-> qs, raised |-> "redis.ConnectionError", cmds |-> <<"rpush">>]
                ELSE publish_message("coordinator", qs, RoutedEnvelope(content, persona_id),
                                     TaskQueueOf(persona_id))
       IN IF p.raised # NoError
          THEN [queues |-> qs, raised |-> p.raised]
          ELSE route(p.queues, Tail(personas), content, faults)

handle_user_message(c, qs, message, faults) ==
  route(qs, c.active_personas, message.content, faults)

\* (mutant) handle_assistant_message that stamps every active persona
handle_assistant_message_stamps_all(c, message) ==
  [c EXCEPT !.active_personas =
     [i \in 1..Len(@) |-> Update(@[i], [last_message_time |-> now])]]

\* handle_assistant_message: stamps the persona named in metadata, if active
handle_assistant_message(c, message) ==
  LET persona_id == Get(message.metadata, "persona_id", None) IN
  IF message.metadata = NoMetadata \/ persona_id \in {None, ""}
     \/ persona_id \notin Keys(c.active_personas)
  THEN c
  ELSE [c EXCEPT !.active_personas =
          [i \in 1..Len(@) |-> IF @[i]["id"] = persona_id
                               THEN Update(@[i], [last_message_time |-> now]) ELSE @[i]]]

\* handle_system_message: the start_conversation / end_conversation commands
handle_system_message(c, message) ==
  LET command == Get(message.metadata, "command", None) IN
  IF message.metadata = NoMetadata THEN c
  ELSE IF command = "start_conversation"
  THEN start_conversation(c, Get(message.metadata, "personas", <<>>))
  ELSE IF command = "end_conversation" THEN end_conversation(c)
  ELSE c

\* how a callback invoked by notify_callbacks behaves: it returns or it raises
CallbackOutcomes == {NoError, "Exception"}

\* the loop of notify_callbacks from the i-th callback on: each is awaited, what
\* it raises is logged
RECURSIVE notify_from(_, _, _)
notify_from(callbacks, outcomes, i) ==
  IF i > Len(callbacks) THEN [invoked |-> <<>>, raised |-> NoError]
  ELSE LET rest == notify_from(callbacks, outcomes, i + 1) IN
       [invoked |-> <<callbacks[i]>> \o rest.invoked, raised |-> rest.raised]

\* (mutant) notify_callbacks without the try/except around a callback
RECURSIVE notify_until_error(_, _, _)
notify_until_error(callbacks, outcomes, i) ==
  IF i > Len(callbacks) THEN [invoked |-> <<>>, raised |-> NoError]
  ELSE IF outcomes[i] # NoError THEN [invoked |-> <<callbacks[i]>>, raised |-> outcomes[i]]
  ELSE LET rest == notify_until_error(callbacks, outcomes, i + 1) IN
       [invoked |-> <<callbacks[i]>> \o rest.invoked, raised |-> rest.raised]
notify_callbacks_unguarded(callbacks, outcomes) == notify_until_error(callbacks, outcomes, 1)

\* notify_callbacks(message), the i-th callback behaving as outcomes[i]
notify_callbacks(callbacks, outcomes) == notify_from(callbacks, outcomes, 1)

\* (mutant) add_message that inserts at the head of the history
add_message_prepends(c, message, outcomes) ==
  LET n == notify_callbacks(c.message_callbacks, outcomes) IN
  [cm |-> [c EXCEPT !.messages = <<message>> \o @], raised |-> n.raised,
   notified |-> [called |-> TRUE, message |-> message, registered |-> c.message_callbacks,
                 outcomes |-> outcomes, invoked |-> n.invoked, raised |-> n.raised]]

\* add_message: append to the history, then notify the callbacks
add_message(c, message, outcomes) ==
  LET n == notify_callbacks(c.message_callbacks, outcomes) IN
  [cm |-> [c EXCEPT !.messages = Append(@, message)], raised |-> n.raised,
   notified |-> [called |-> TRUE, message |-> message, registered |-> c.message_callbacks,
                 outcomes |-> outcomes, invoked |-> n.invoked, raised |-> n.raised]]

\* register_message_callback
register_message_callback(c, callback) == [c EXCEPT !.message_callbacks = Append(@, callback)]

\* get_all_messages: a copy of the history;  clear_messages: empties it
get_all_messages(c) == c.messages
clear_messages(c) == [c EXCEPT !.messages = <<>>]

\* no add_message was made
NothingNotified ==
  [called |-> FALSE, message |-> EmptyDict, registered |-> <<>>, outcomes |-> <<>>,
   invoked |-> <<>>, raised |-> NoError]

\* what Message(role=Role(message['role']), content=message['content'], ...)
\* accepts of a decoded payload
WellFormed(j) ==
  /\ j.raised = NoError
  /\ "role" \in DOMAIN j.value /\ "content" \in DOMAIN j.value
  /\ j.value["role"] \in Roles /\ j.value["content"] # None

\* (mutant) process_message that records a payload in the history before it
\* has validated it
process_message_appends_first(c, qs, data, outcomes, faults) ==
  LET a == add_message(c, [role |-> "system", content |-> None, metadata |-> EmptyDict],
                       outcomes)
  IN [cm |-> a.cm, queues |-> qs, notified |-> a.notified]

\* ConversationManager.process_message: decode, build the Message, append it
\* and notify, dispatch on its role; every exception is logged
process_message(c, qs, data, outcomes, faults) ==
  LET j == json_loads(data)
      d == j.value
      m == [role |-> d["role"], content |-> d["content"],
            metadata |-> Get(d, "metadata", EmptyDict)]
      a == add_message(c, m, outcomes)
      c1 == a.cm
  IN
  IF ~WellFormed(j) THEN [cm |-> c, queues |-> qs, notified |-> NothingNotified]
  ELSE IF a.raised # NoError THEN [cm |-> c1, queues |-> qs, notified |-> a.notified]
  ELSE IF m.role = "assistant"
  THEN [cm |-> handle_assistant_message(c1, m), queues |-> qs, notified |-> a.notified]
  ELSE IF m.role = "user"
  THEN [cm |-> c1, queues |-> handle_user_message(c1, qs, m, faults).queues,
        notified |-> a.notified]
  ELSE IF m.role = "system"
  THEN [cm |-> handle_system_message(c1, m), queues |-> qs, notified |-> a.notified]
  ELSE [cm |-> c1, queues |-> qs, notified |-> a.notified]

-----------------------------------------------------------------------------
(* Initial state: every component constructed, nothing connected *)

IdleLoop == [pc |-> "idle", cur |-> NoPayload, raised |-> NoError]
IdleCall == [pc |-> "idle", request |-> EmptyDict, sent |-> FALSE, pop_raised |-> NoError,
             popped |-> NoPayload, raised |-> NoError, response |-> EmptyDict]
NothingHandled ==
  [by |-> None, queue |-> None, task |-> FALSE, wellformed |-> FALSE, names |-> None,
   backend |-> FALSE, sent |-> <<>>]

\* a Task Envelope: a JSON object that carries content and names a response queue
IsTaskEnvelope(p) ==
  p.kind = "json" /\ "content" \in DOMAIN p.body /\ "response_queue" \in DOMAIN p.body

\* what is recorded of a payload processed by `by`, taken from `queue`
Handled(by, queue, p, backend, sent) ==
  [by |-> by, queue |-> queue, task |-> IsTaskEnvelope(p),
   wellformed |-> WellFormed(json_loads(p)),
   names |-> Get(p.body, "response_queue", None), backend |-> backend, sent |-> sent]

\* ConversationManager.__init__
ConversationManagerInit ==
  [ messages |-> <<>>, message_callbacks |-> <<>>, active_personas |-> <<>>,
    conversation_active |-> FALSE ]

\* main() has not reached its dialogue
NoDialogue ==
  [pc |-> "idle", start_time |-> None, exchange_count |-> 0, i |-> 0, raised |-> NoError]

NoDialogueState == [constructed |-> FALSE]
NothingParsed == [called |-> FALSE]

Init ==
  /\ queues = [q \in QueueNames |-> <<>>]
  /\ broker = "up"
  /\ now = 0
  /\ qm = [c \in Components |-> IF c \in Clients THEN LLMClientInit(c)
                                 ELSE QueueConnectionManagerInit]
  /\ verified = [c \in Components |-> FALSE]
  /\ last = NoCall
  /\ loop = [c \in Components |-> IdleLoop]
  /\ call = [a \in Clients |-> IdleCall]
  /\ cm = ConversationManagerInit
  /\ handled = NothingHandled
  /\ notified = NothingNotified
  /\ dialogue = NoDialogue
  /\ dstate = NoDialogueState
  /\ parsed = NothingParsed

-----------------------------------------------------------------------------
(* The environment: the broker's reachability and the clock *)

BrokerChange ==
  /\ \E b \in BrokerStates \ {broker} : broker' = b
  /\ UNCHANGED <<queues, now, qm, verified, last, loop, call, cm, handled, notified, dialogue, dstate, parsed>>

Tick ==
  /\ now < MaxClock
  /\ now' = now + 1
  /\ UNCHANGED <<queues, broker, qm, verified, last, loop, call, cm, handled, notified, dialogue, dstate, parsed>>

-----------------------------------------------------------------------------
(* QueueConnectionManager's methods called on component c *)

CloseOutcomes == {NoError, "Exception"}

Connect(c) ==
  LET r == connect(c) IN
  /\ qm' = r.qm
  /\ verified' = [verified EXCEPT ![c] = (r.raised = NoError)]
  /\ last' = Call(c, "connect", r)
  /\ UNCHANGED <<queues, broker, now, loop, call, cm, handled, notified, dialogue, dstate, parsed>>

Disconnect(c) ==
  \E close_error \in CloseOutcomes :
    LET r == disconnect(qm, c, close_error) IN
    /\ qm' = r.qm
    /\ verified' = [verified EXCEPT ![c] = IF r.raised = NoError THEN FALSE ELSE @]
    /\ last' = Call(c, "disconnect", r)
    /\ UNCHANGED <<queues, broker, now, loop, call, cm, handled, notified, dialogue, dstate, parsed>>

PublishMessage(c, message, queue_name) ==
  LET r == publish_message(c, queues, message, queue_name) IN
  /\ Bounded(r.queues)
  /\ queues' = r.queues
  /\ last' = Call(c, "publish_message", r)
  /\ UNCHANGED <<broker, now, qm, verified, loop, call, cm, handled, notified, dialogue, dstate, parsed>>

GetMessage(c, queue_name) ==
  LET r == get_message(c, queues, queue_name) IN
  /\ queues' = r.queues
  /\ last' = Call(c, "get_message", r)
  /\ UNCHANGED <<broker, now, qm, verified, loop, call, cm, handled, notified, dialogue, dstate, parsed>>

\* message_consumer(): the first step of the generator checks the connection
\* once, before the polling loop
ConsumerStart(c) ==
  /\ loop[c].pc = "idle"
  /\ loop' = [loop EXCEPT ![c] =
        IF not_connected(c) THEN [pc |-> "done", cur |-> NoPayload, raised |-> "Exception"]
        ELSE [pc |-> "consuming", cur |-> NoPayload, raised |-> NoError]]
  /\ last' = Call(c, "message_consumer",
                   [raised |-> IF not_connected(c) THEN "Exception" ELSE NoError, cmds |-> <<>>])
  /\ UNCHANGED <<queues, broker, now, qm, verified, call, cm, handled, notified, dialogue, dstate, parsed>>

\* (mutant) one turn of message_consumer() in which an error of get_message
\* ends the generator instead of being slept over
PollRaises(c) ==
  /\ loop[c].pc = "consuming"
  /\ LET r == get_message(c, queues, qm[c].task_queue) IN
     /\ queues' = r.queues
     /\ loop' = [loop EXCEPT ![c] =
           IF r.raised # NoError THEN [pc |-> "done", cur |-> NoPayload, raised |-> r.raised]
           ELSE IF r.value # NoPayload
           THEN [pc |-> "processing", cur |-> r.value, raised |-> NoError]
           ELSE @]
  /\ UNCHANGED <<broker, now, qm, verified, last, call, cm, handled, notified, dialogue, dstate, parsed>>

\* one turn of message_consumer()'s loop: get_message(queue); a payload is
\* yielded, a timeout is followed by the idle sleep and the next turn, an error
\* is logged and followed by the back-off sleep
Poll(c) ==
  /\ loop[c].pc = "consuming"
  /\ LET r == get_message(c, queues, qm[c].task_queue) IN
     /\ queues' = r.queues
     /\ loop' = [loop EXCEPT ![c] =
           IF r.raised # NoError THEN [pc |-> "backoff", cur |-> NoPayload, raised |-> NoError]
           ELSE IF r.value # NoPayload
           THEN [pc |-> "processing", cur |-> r.value, raised |-> NoError]
           ELSE @]
  /\ UNCHANGED <<broker, now, qm, verified, last, call, cm, handled, notified, dialogue, dstate, parsed>>

\* the back-off sleep of message_consumer() is over: the next turn of its loop
Retry(c) ==
  /\ loop[c].pc = "backoff"
  /\ loop' = [loop EXCEPT ![c] = [pc |-> "consuming", cur |-> NoPayload, raised |-> NoError]]
  /\ UNCHANGED <<queues, broker, now, qm, verified, last, call, cm, handled, notified, dialogue, dstate, parsed>>

\* the task iterating a bare message_consumer() is cancelled: inside get_message
\* or the idle sleep the generator catches CancelledError and breaks, inside
\* the back-off sleep (outside its try) CancelledError leaves the generator
ConsumerCancel(c) ==
  /\ loop[c].pc \in {"consuming", "backoff"}
  /\ loop' = [loop EXCEPT ![c] =
        [pc |-> "done", cur |-> NoPayload,
         raised |-> IF loop[c].pc = "backoff" THEN "CancelledError" ELSE NoError]]
  /\ UNCHANGED <<queues, broker, now, qm, verified, last, call, cm, handled, notified, dialogue, dstate, parsed>>

\* the caller of the generator asks for the next payload
ConsumerNext(c) ==
  /\ loop[c].pc = "processing"
  /\ loop' = [loop EXCEPT ![c] = [pc |-> "consuming", cur |-> NoPayload, raised |-> NoError]]
  /\ UNCHANGED <<queues, broker, now, qm, verified, last, call, cm, handled, notified, dialogue, dstate, parsed>>

\* a generator that ended is dropped and a new one may be made
ConsumerDrop(c) ==
  /\ loop[c].pc = "done"
  /\ loop' = [loop EXCEPT ![c] = IdleLoop]
  /\ UNCHANGED <<queues, broker, now, qm, verified, last, call, cm, handled, notified, dialogue, dstate, parsed>>

-----------------------------------------------------------------------------
(* The run loops: run() of LLMClient, ConversationManager and LLMWorker *)

RunLoops == {"coordinator", "worker"} \cup Agents

\* run() up to its first payload: connect(), then message_consumer().  A failed
\* connect is raised by LLMClient.run (which skips disconnect) and is logged by
\* ConversationManager.run and LLMWorker.run, whose finally clause disconnects
RunStart(c) ==
  /\ loop[c].pc = "idle"
  /\ LET r == connect(c) IN
     IF r.raised = NoError
     THEN /\ qm' = r.qm
          /\ verified' = [verified EXCEPT ![c] = TRUE]
          /\ loop' = [loop EXCEPT ![c] = [pc |-> "consuming", cur |-> NoPayload,
                                          raised |-> NoError]]
     ELSE IF c \in Agents
     THEN /\ qm' = r.qm
          /\ verified' = [verified EXCEPT ![c] = FALSE]
          /\ loop' = [loop EXCEPT ![c] = [pc |-> "done", cur |-> NoPayload,
                                          raised |-> r.raised]]
     ELSE \E close_error \in CloseOutcomes :
            LET d == disconnect(r.qm, c, close_error) IN
            /\ qm' = d.qm
            /\ verified' = [verified EXCEPT ![c] = FALSE]
            /\ loop' = [loop EXCEPT ![c] = [pc |-> "done", cur |-> NoPayload,
                                            raised |-> d.raised]]
  /\ UNCHANGED <<queues, broker, now, last, call, cm, handled, notified, dialogue, dstate, parsed>>

\* the body of LLMClient.run's loop: process_message(payload)
ClientProcess(a) ==
  /\ loop[a].pc = "processing"
  /\ LET r == client_process_message(a, queues, loop[a].cur) IN
     /\ Bounded(r.queues)
     /\ queues' = r.queues
     /\ handled' = Handled(a, qm[a].task_queue, loop[a].cur, FALSE, r.sent)
  /\ loop' = [loop EXCEPT ![a] = [pc |-> "consuming", cur |-> NoPayload, raised |-> NoError]]
  /\ UNCHANGED <<broker, now, qm, verified, last, call, cm, notified, dialogue, dstate, parsed>>

\* the body of LLMWorker.run's loop: process_message(payload); what it raises
\* ends the loop, is logged by run(), and the finally clause disconnects
WorkerProcess ==
  /\ loop["worker"].pc = "processing"
  /\ \E backend \in BackendOutcomes :
       LET r == worker_process_message(queues, loop["worker"].cur, backend) IN
       /\ Bounded(r.queues)
       /\ queues' = r.queues
       /\ handled' = Handled("worker", qm["worker"].task_queue, loop["worker"].cur,
                             r.invoked, r.sent)
       /\ IF r.raised = NoError
          THEN /\ loop' = [loop EXCEPT !["worker"] =
                            [pc |-> "consuming", cur |-> NoPayload, raised |-> NoError]]
               /\ UNCHANGED <<qm, verified>>
          ELSE \E close_error \in CloseOutcomes :
                 LET d == disconnect(qm, "worker", close_error) IN
                 /\ qm' = d.qm
                 /\ verified' = [verified EXCEPT !["worker"] =
                                   IF d.raised = NoError THEN FALSE ELSE @]
                 /\ loop' = [loop EXCEPT !["worker"] =
                              [pc |-> "done", cur |-> NoPayload, raised |-> d.raised]]
  /\ UNCHANGED <<broker, now, last, call, cm, notified, dialogue, dstate, parsed>>

\* run() is cancelled after its connect succeeded, in the pop or the idle sleep
\* (the generator breaks), in the back-off sleep (CancelledError reaches run())
\* or while a payload is processed: run() logs the cancellation and its finally
\* clause disconnects, LLMClient through its own disconnect(), which swallows
\* what close() raises, the worker and the coordinator through
\* queue_manager.disconnect(), whose error leaves run()
Cancel(c) ==
  /\ loop[c].pc \in {"consuming", "backoff", "processing"}
  /\ \E close_error \in CloseOutcomes :
       LET d == IF c \in Agents THEN llm_client_disconnect(qm, c, close_error)
                ELSE disconnect(qm, c, close_error) IN
       /\ qm' = d.qm
       /\ verified' = [verified EXCEPT ![c] =
                         IF d.qm[c].redis_client = None THEN FALSE ELSE @]
       /\ loop' = [loop EXCEPT ![c] = [pc |-> "done", cur |-> NoPayload, raised |-> d.raised]]
  /\ UNCHANGED <<queues, broker, now, last, call, cm, handled, notified, dialogue, dstate, parsed>>

\* (mutant) the body of the loop without `if not self.conversation_active:
\* continue`: every payload is processed
CoordinatorProcess_whatever_active ==
  /\ loop["coordinator"].pc = "processing"
  /\ \E outcomes \in [1..Len(cm.message_callbacks) -> CallbackOutcomes],
        faults \in SUBSET Keys(cm.active_personas) :
       LET r == IF TRUE
                THEN process_message(cm, queues, loop["coordinator"].cur, outcomes, faults)
                ELSE [cm |-> cm, queues |-> queues, notified |-> NothingNotified] IN
       /\ Bounded(r.queues)
       /\ Len(r.cm.messages) <= MaxHist
       /\ queues' = r.queues
       /\ cm' = r.cm
       /\ notified' = IF r.notified.called THEN r.notified ELSE notified
  /\ handled' = Handled("coordinator", qm["coordinator"].task_queue,
                        loop["coordinator"].cur, FALSE, <<>>)
  /\ loop' = [loop EXCEPT !["coordinator"] =
               [pc |-> "consuming", cur |-> NoPayload, raised |-> NoError]]
  /\ UNCHANGED <<broker, now, qm, verified, last, call, dialogue, dstate, parsed>>

\* the body of ConversationManager.run's loop: a payload is dropped while the
\* conversation is inactive, else process_message(payload)
CoordinatorProcess ==
  /\ loop["coordinator"].pc = "processing"
  /\ \E outcomes \in [1..Len(cm.message_callbacks) -> CallbackOutcomes],
        faults \in SUBSET Keys(cm.active_personas) :
       LET r == IF cm.conversation_active
                THEN process_message(cm, queues, loop["coordinator"].cur, outcomes, faults)
                ELSE [cm |-> cm, queues |-> queues, notified |-> NothingNotified] IN
       /\ Bounded(r.queues)
       /\ Len(r.cm.messages) <= MaxHist
       /\ queues' = r.queues
       /\ cm' = r.cm
       /\ notified' = IF r.notified.called THEN r.notified ELSE notified
  /\ handled' = Handled("coordinator", qm["coordinator"].task_queue,
                        loop["coordinator"].cur, FALSE, <<>>)
  /\ loop' = [loop EXCEPT !["coordinator"] =
               [pc |-> "consuming", cur |-> NoPayload, raised |-> NoError]]
  /\ UNCHANGED <<broker, now, qm, verified, last, call, dialogue, dstate, parsed>>

-----------------------------------------------------------------------------
(* Calls made by the owner of the components *)

\* the record of one call the owner makes on the ConversationManager
\* (value: whether the conversation was active when the call was made)
OwnerCall(op, c) ==
  [c |-> "coordinator", op |-> op, held |-> ~not_connected("coordinator"), raised |-> NoError,
   cmds |-> <<>>, value |-> [conversation_active |-> c.conversation_active]]

\* ConversationManager.start_conversation(personas)
StartConversation(personas) ==
  /\ cm' = start_conversation(cm, personas)
  /\ last' = OwnerCall("start_conversation", cm)
  /\ UNCHANGED <<queues, broker, now, qm, verified, loop, call, handled, notified, dialogue, dstate, parsed>>

\* ConversationManager.end_conversation()
EndConversation ==
  /\ cm' = end_conversation(cm)
  /\ last' = OwnerCall("end_conversation", cm)
  /\ UNCHANGED <<queues, broker, now, qm, verified, loop, call, handled, notified, dialogue, dstate, parsed>>

\* ConversationManager.handle_assistant_message(message)
HandleAssistantMessage(message) ==
  /\ cm' = handle_assistant_message(cm, message)
  /\ last' = OwnerCall("handle_assistant_message", cm)
  /\ UNCHANGED <<queues, broker, now, qm, verified, loop, call, handled, notified, dialogue, dstate, parsed>>

\* ConversationManager.add_message(message), called by the owner
AddMessage(message) ==
  /\ Len(cm.messages) < MaxHist
  /\ \E outcomes \in [1..Len(cm.message_callbacks) -> CallbackOutcomes] :
       LET a == add_message(cm, message, outcomes) IN
       /\ cm' = a.cm
       /\ notified' = a.notified
  /\ UNCHANGED <<queues, broker, now, qm, verified, last, loop, call, handled, dialogue, dstate, parsed>>

\* ConversationManager.clear_messages()
ClearMessages ==
  /\ cm' = clear_messages(cm)
  /\ UNCHANGED <<queues, broker, now, qm, verified, last, loop, call, handled, notified, dialogue, dstate, parsed>>

\* ConversationManager.register_message_callback(callback)
RegisterCallback(callback) ==
  /\ Len(cm.message_callbacks) < MaxObservers
  /\ cm' = register_message_callback(cm, callback)
  /\ UNCHANGED <<queues, broker, now, qm, verified, last, loop, call, handled, notified, dialogue, dstate, parsed>>

\* ConversationManager.handle_user_message(Message(role=user, content))
RouteUserMessage(content, faults) ==
  LET r == handle_user_message(cm, queues,
             [role |-> "user", content |-> content, metadata |-> NoMetadata], faults) IN
  /\ faults \subseteq Keys(cm.active_personas)
  /\ Bounded(r.queues)
  /\ queues' = r.queues
  /\ last' = OwnerCall("handle_user_message", cm)
  /\ UNCHANGED <<broker, now, qm, verified, loop, call, cm, handled, notified, dialogue, dstate, parsed>>

\* LLMClient.generate_response(prompt, metadata) up to the wait for the response
GenerateResponseSend(a, prompt, metadata) ==
  /\ call[a].pc # "waiting"
  /\ LET request == TaskEnvelope(a, prompt, "assistant", metadata)
         r == publish_message(a, queues, request, None) IN
     /\ Bounded(r.queues)
     /\ queues' = r.queues
     /\ call' = [call EXCEPT ![a] =
           [pc |-> IF r.raised = NoError THEN "waiting" ELSE "raised", request |-> request,
            sent |-> (r.raised = NoError), pop_raised |-> NoError, popped |-> NoPayload, raised |-> r.raised,
            response |-> EmptyDict]]
  /\ UNCHANGED <<broker, now, qm, verified, last, loop, cm, handled, notified, dialogue, dstate, parsed>>

\* LLMClient.generate_response from get_response(timeout) on: a payload popped
\* from the agent's response queue, or the timeout
GenerateResponseRecv(a) ==
  /\ call[a].pc = "waiting"
  /\ LET r == get_message(a, queues, None)
         g == generate_response_result(r) IN
     /\ queues' = r.queues
     /\ call' = [call EXCEPT ![a] =
           [pc |-> IF g.raised = NoError THEN "returned" ELSE "raised",
            request |-> @.request, sent |-> TRUE, pop_raised |-> r.raised, popped |-> r.value,
            raised |-> g.raised, response |-> g.value]]
  /\ UNCHANGED <<broker, now, qm, verified, last, loop, cm, handled, notified, dialogue, dstate, parsed>>

\* a producer outside these components pushes a payload on a list
ExternalPublish(q, payload) ==
  /\ Len(queues[q]) < Capacity(q)
  /\ queues' = rpush(queues, q, payload)
  /\ UNCHANGED <<broker, now, qm, verified, last, loop, call, cm, handled, notified, dialogue, dstate, parsed>>

\* HealthMonitor(client a).check_health()
CheckHealth(a) ==
  /\ last' = [c |-> a, op |-> "check_health", held |-> ~not_connected(a), raised |-> NoError,
              cmds |-> IF not_connected(a) THEN <<>> ELSE <<"ping">>,
              value |-> check_health(a)]
  /\ UNCHANGED <<queues, broker, now, qm, verified, loop, call, cm, handled, notified,
                 dialogue, dstate, parsed>>

\* parser.parse_persona_response(content, model_config)
Parse(model_config) ==
  /\ ~parsed.called
  /\ parsed' = [called |-> TRUE, content |-> parsed.content,
                result |-> parse_persona_response(parsed.content, model_config)]
  /\ UNCHANGED <<queues, broker, now, qm, verified, last, loop, call, cm, handled, notified,
                 dialogue, dstate>>

\* QueueConnectionManager(redis_url): component c gets a new connection
NewQueueConnectionManager(c) ==
  LET r == queue_manager_init(EmptyDict) IN
  /\ qm' = [qm EXCEPT ![c] = r.value]
  /\ verified' = [verified EXCEPT ![c] = FALSE]
  /\ last' = [c |-> c, op |-> "QueueConnectionManager", held |-> FALSE, raised |-> r.raised,
              cmds |-> <<>>,
              value |-> [task_queue |-> r.value.task_queue,
                         response_queue |-> r.value.response_queue]]
  /\ UNCHANGED <<queues, broker, now, loop, call, cm, handled, notified, dialogue, dstate, parsed>>

\* LLMClient(redis_url, client_id=a): what the call raises, and the queue pair
\* of the connection the new agent holds (no agent is returned when it raises)
NewLLMClient(a) ==
  LET r == llm_client_init(a) IN
  /\ last' = [c |-> a, op |-> "LLMClient", held |-> FALSE, raised |-> r.raised, cmds |-> <<>>,
              value |-> IF r.raised # NoError THEN NoPayload
                        ELSE [task_queue |-> r.queue_manager.task_queue,
                              response_queue |-> r.queue_manager.response_queue]]
  /\ UNCHANGED <<queues, broker, now, qm, verified, loop, call, cm, handled, notified,
                 dialogue, dstate, parsed>>

-----------------------------------------------------------------------------
(* A DialogueState in the hands of its owner *)

\* the fields of a DialogueState that should_conclude reads, and the clock
Reading(d) ==
  [start_time |-> d.start_time, exchange_count |-> d.exchange_count,
   is_concluded |-> d.is_concluded, config |-> d.config, now |-> now]

\* state.should_conclude()
ShouldConclude ==
  /\ dstate.constructed
  /\ dstate' = [dstate EXCEPT !.asked = TRUE, !.answer = should_conclude(dstate),
                              !.read = Reading(dstate)]
  /\ UNCHANGED <<queues, broker, now, qm, verified, last, loop, call, cm, handled, notified,
                 dialogue, parsed>>

\* state.exchange_count += 1
CountExchange ==
  /\ dstate.constructed
  /\ dstate.exchange_count <= MaxExchanges
  /\ dstate' = [dstate EXCEPT !.exchange_count = @ + 1]
  /\ UNCHANGED <<queues, broker, now, qm, verified, last, loop, call, cm, handled, notified,
                 dialogue, parsed>>

\* state.is_concluded = True
Conclude ==
  /\ dstate.constructed
  /\ dstate' = [dstate EXCEPT !.is_concluded = TRUE]
  /\ UNCHANGED <<queues, broker, now, qm, verified, last, loop, call, cm, handled, notified,
                 dialogue, parsed>>

\* the clock readings of the model: around every whole minute
ClockReadings == { 60 * m + d : m \in 0..MaxMinutes, d \in {0, 1, 59} }

\* time passes
Pass ==
  /\ \E t \in ClockReadings : t > now /\ now' = t
  /\ UNCHANGED <<queues, broker, qm, verified, last, loop, call, cm, handled, notified,
                 dialogue, dstate, parsed>>

-----------------------------------------------------------------------------
(* main(): the dialogue between the personas' clients, and its conclusion *)

\* model_clients, in the order of the personas
DialogueClients == <<"A", "B">>

\* ConversationManager.get_last_message(), which main() calls: the last
\* message of the history
get_last_message(c) == c.messages[Len(c.messages)]

\* the while condition of the dialogue
InTime(d) == (now - d.start_time) < MaxMinutes * 60

\* what follows a turn whose response was appended: the next client, the next
\* round, or the conclusion (exchange_count reached, or the time is over)
after_turn(d) ==
  IF d.i < Len(DialogueClients) THEN [d EXCEPT !.pc = "turn", !.i = @ + 1]
  ELSE LET e == [d EXCEPT !.exchange_count = @ + 1] IN
       IF e.exchange_count >= MaxExchanges \/ ~InTime(e)
       THEN [e EXCEPT !.pc = "conclusion", !.i = 0]
       ELSE [e EXCEPT !.pc = "turn", !.i = 1]

\* an exception inside main()'s try: logged, raised again, the finally clause
\* cancels the clients' tasks
dialogue_raises(d, error) == [d EXCEPT !.pc = "done", !.raised = error]

\* start_time = datetime.now(); exchange_count = 0; the first turn
DialogueBegin ==
  /\ dialogue.pc = "idle"
  /\ dialogue' = [pc |-> "turn", start_time |-> now, exchange_count |-> 0, i |-> 1,
                  raised |-> NoError]
  /\ UNCHANGED <<queues, broker, now, qm, verified, last, loop, call, cm, handled, notified,
                 dstate, parsed>>

\* generate_response of client a, called by main(), up to the wait for the response
DialogueSend(a, prompt, metadata) ==
  LET request == TaskEnvelope(a, prompt, "assistant", metadata)
      r == publish_message(a, queues, request, None) IN
  /\ Bounded(r.queues)
  /\ queues' = r.queues
  /\ call' = [call EXCEPT ![a] =
        [pc |-> IF r.raised = NoError THEN "waiting" ELSE "raised", request |-> request,
         sent |-> (r.raised = NoError), pop_raised |-> NoError, popped |-> NoPayload,
         raised |-> r.raised, response |-> EmptyDict]]
  /\ dialogue' = IF r.raised = NoError THEN [dialogue EXCEPT !.pc = "waiting"]
                 ELSE dialogue_raises(dialogue, r.raised)
  /\ UNCHANGED <<broker, now, qm, verified, last, loop, cm, handled, notified, dstate, parsed>>

\* generate_response of client a from get_response(timeout) on, and what main()
\* does with the response: add_message(response), or the exception leaves main()
DialogueRecv(a, next) ==
  LET r == get_message(a, queues, None)
      g == generate_response_result(r) IN
  /\ queues' = r.queues
  /\ call' = [call EXCEPT ![a] =
        [pc |-> IF g.raised = NoError THEN "returned" ELSE "raised",
         request |-> @.request, sent |-> TRUE, pop_raised |-> r.raised, popped |-> r.value,
         raised |-> g.raised, response |-> g.value]]
  /\ IF g.raised # NoError
     THEN /\ dialogue' = dialogue_raises(dialogue, g.raised)
          /\ UNCHANGED <<cm, notified>>
     ELSE /\ \E outcomes \in [1..Len(cm.message_callbacks) -> CallbackOutcomes] :
               LET m == add_message(cm, g.value, outcomes) IN
               /\ cm' = m.cm
               /\ notified' = m.notified
          /\ dialogue' = next
  /\ UNCHANGED <<broker, now, qm, verified, last, loop, handled, dstate, parsed>>

\* a persona's turn: client.generate_response(prompt=last_message.content, ...)
TurnSend ==
  /\ dialogue.pc = "turn"
  /\ LET a == DialogueClients[dialogue.i] IN
     DialogueSend(a, get_last_message(cm).content, [model_name |-> a])

TurnRecv ==
  /\ dialogue.pc = "waiting" /\ dialogue.i > 0
  /\ DialogueRecv(DialogueClients[dialogue.i], after_turn(dialogue))

ConclusionPrompt == "Based on the dialogue so far, generate a thoughtful conclusion"

\* the conclusion: director.generate_response(conclusion_prompt, ...)
ConclusionSend ==
  /\ dialogue.pc = "conclusion"
  /\ DialogueSend(Director, ConclusionPrompt, [type |-> "conclusion"])

ConclusionRecv ==
  /\ dialogue.pc = "waiting" /\ dialogue.i = 0
  /\ DialogueRecv(Director, [dialogue EXCEPT !.pc = "done"])

-----------------------------------------------------------------------------
(* The connection on its own *)

\* the messages and queue names the connection is driven with on its own
ConnMessages == { [content |-> "m1"], [content |-> "m2"] }
ConnQueues == { None, DEFAULT_RESPONSE_QUEUE }

NextConn ==
  \/ BrokerChange
  \/ Connect("conn")
  \/ Disconnect("conn")
  \/ \E m \in ConnMessages, q \in ConnQueues : PublishMessage("conn", m, q)
  \/ \E q \in ConnQueues : GetMessage("conn", q)
  \/ ConsumerStart("conn")
  \/ Poll("conn")
  \/ Retry("conn")
  \/ ConsumerCancel("conn")
  \/ ConsumerNext("conn")
  \/ ConsumerDrop("conn")

SpecConn == Init /\ [][NextConn]_vars

\* the consumer's loop goes on: its pop is made, its back-off sleep ends
FairConn ==
  /\ SpecConn
  /\ WF_vars(Poll("conn"))
  /\ WF_vars(Retry("conn"))

-----------------------------------------------------------------------------
(* Construction: connections and agents are made, the connection is used with
   its default queues *)

NextNew ==
  \/ NewQueueConnectionManager("conn")
  \/ \E a \in Agents : NewLLMClient(a)
  \/ Connect("conn")
  \/ \E m \in ConnMessages : PublishMessage("conn", m, None)
  \/ GetMessage("conn", None)
  \/ \E m \in ConnMessages : ExternalPublish(DEFAULT_RESPONSE_QUEUE, json_dumps(m))

SpecNew == Init /\ [][NextNew]_vars

-----------------------------------------------------------------------------
(* A DialogueState: constructed with a configuration, a start time and
   counters, then read and advanced by its owner *)

DialogueConfigs ==
  [duration_minutes : 1..MaxMinutes, exchange_count : 1..MaxExchanges]

InitState ==
  /\ queues = [q \in QueueNames |-> <<>>]
  /\ broker = "up"
  /\ now \in ClockReadings
  /\ qm = [c \in Components |-> IF c \in Clients THEN LLMClientInit(c)
                                 ELSE QueueConnectionManagerInit]
  /\ verified = [c \in Components |-> FALSE]
  /\ last = NoCall
  /\ loop = [c \in Components |-> IdleLoop]
  /\ call = [a \in Clients |-> IdleCall]
  /\ cm = ConversationManagerInit
  /\ handled = NothingHandled
  /\ notified = NothingNotified
  /\ dialogue = NoDialogue
  /\ \E config \in DialogueConfigs, start_time \in ClockReadings,
        exchange_count \in 0..MaxExchanges, is_concluded \in BOOLEAN :
       LET d == [constructed |-> TRUE, config |-> config, start_time |-> start_time,
                 exchange_count |-> exchange_count, is_concluded |-> is_concluded] IN
       dstate = Update(d, [asked |-> FALSE, answer |-> FALSE, read |-> Reading(d)])
  /\ parsed = NothingParsed

NextState ==
  \/ ShouldConclude
  \/ CountExchange
  \/ Conclude
  \/ Pass

SpecState == InitState /\ [][NextState]_vars

-----------------------------------------------------------------------------
(* Health: the agents connect and disconnect, the broker comes and goes, the
   agents' monitors are asked *)

NextHealth ==
  \/ BrokerChange
  \/ \E a \in Agents : Connect(a)
  \/ \E a \in Agents : Disconnect(a)
  \/ \E a \in Agents : CheckHealth(a)

SpecHealth == Init /\ [][NextHealth]_vars

-----------------------------------------------------------------------------
(* Persona parsing: a content that provides some of the nine fields, as JSON
   or as text, is parsed *)

PersonaFields ==
  { EXPECTED_SECTIONS[s][k] : s \in DOMAIN EXPECTED_SECTIONS, k \in 1..3 }

\* what a content gives for field f
FieldValue(f) ==
  IF f \in ListFields THEN "Medieval Europe, Ancient Rome"
  ELSE "Decades of academic research"

\* the section of the JSON object / the lines of the section of the text that
\* provide the fields present
JsonSection(section, present) ==
  LET fs == { f \in present : \E k \in 1..3 : EXPECTED_SECTIONS[section][k] = f } IN
  [f \in fs |-> FieldValue(f)]

RECURSIVE FieldLines(_, _)
FieldLines(fields, present) ==
  IF fields = <<>> THEN <<>>
  ELSE (IF Head(fields) \in present
        THEN <<[label |-> Labels[Head(fields)], value |-> FieldValue(Head(fields))]>>
        ELSE <<>>) \o FieldLines(Tail(fields), present)

TextSection(section, title, present) ==
  LET lines == FieldLines(EXPECTED_SECTIONS[section], present) IN
  IF lines = <<>> THEN <<>> ELSE <<[header |-> title]>> \o lines

\* a JSON object with the sections that have a field present, with or without
\* name, role and style
JsonContent(present, named) ==
  LET sections == { s \in DOMAIN EXPECTED_SECTIONS : JsonSection(s, present) # EmptyDict }
      top == IF named THEN [name |-> "Scholar", role |-> "Academic Historian",
                            style |-> "Formal and analytical"]
             ELSE EmptyDict
  IN [json |-> TRUE, present |-> present,
      data |-> Update(top, [s \in sections |-> JsonSection(s, present)]),
      lines |-> <<[other |-> "{...}"]>>]

\* a text with a header and field lines for every section that has a field present
TextContent(present) ==
  [json |-> FALSE, present |-> present, data |-> EmptyDict,
   lines |-> TextSection("background", "Background", present)
               \o TextSection("communication", "Communication", present)
               \o TextSection("interaction", "Interaction", present)]

\* ... and a complete JSON object whose expertise_areas is the empty list
PersonaContents ==
  { JsonContent(present, named) : present \in SUBSET PersonaFields, named \in BOOLEAN }
    \cup { TextContent(present) : present \in SUBSET PersonaFields }
    \cup { [JsonContent(PersonaFields, TRUE) EXCEPT !.data.background.expertise_areas = ""] }

ModelConfigs ==
  { [name |-> "TestModel", model_name |-> "test-model", model_provider |-> "test-provider",
     temperature |-> "0.7"] }

InitParse ==
  /\ queues = [q \in QueueNames |-> <<>>]
  /\ broker = "up"
  /\ now = 0
  /\ qm = [c \in Components |-> IF c \in Clients THEN LLMClientInit(c)
                                 ELSE QueueConnectionManagerInit]
  /\ verified = [c \in Components |-> FALSE]
  /\ last = NoCall
  /\ loop = [c \in Components |-> IdleLoop]
  /\ call = [a \in Clients |-> IdleCall]
  /\ cm = ConversationManagerInit
  /\ handled = NothingHandled
  /\ notified = NothingNotified
  /\ dialogue = NoDialogue
  /\ dstate = NoDialogueState
  /\ \E content \in PersonaContents : parsed = [called |-> FALSE, content |-> content]

NextParse == \E model_config \in ModelConfigs : Parse(model_config)

SpecParse == InitParse /\ [][NextParse]_vars

-----------------------------------------------------------------------------
(* Requests: an agent calling generate_response, the worker answering tasks *)

Requesters == {"A"}
Prompts == {"Hello"}

\* tasks that reach the worker's list llm_tasks: Task Envelopes as an agent
\* builds them, naming the agent's response queue
WorkerTasks == { json_dumps(TaskEnvelope(a, prompt, "assistant", EmptyDict)) :
                   a \in Requesters, prompt \in Prompts }

NextReq ==
  \/ Tick
  \/ \E a \in Requesters : Connect(a)
  \/ \E a \in Requesters, prompt \in Prompts : GenerateResponseSend(a, prompt, EmptyDict)
  \/ \E a \in Requesters : GenerateResponseRecv(a)
  \/ \E task \in WorkerTasks : ExternalPublish(DEFAULT_TASK_QUEUE, task)
  \/ RunStart("worker")
  \/ Poll("worker")
  \/ WorkerProcess

SpecReq == Init /\ [][NextReq]_vars

-----------------------------------------------------------------------------
(* Request ids: an agent calls generate_response again and again, with and
   without metadata, while its run loop consumes its task queue *)

\* the metadata a caller passes: none, or a dict with a request_id of its own
RequestMetadata == { EmptyDict, [request_id |-> "mine"] }

NextIds ==
  \/ Tick
  \/ \E a \in Requesters : RunStart(a)
  \/ \E a \in Requesters : Poll(a)
  \/ \E a \in Requesters : ClientProcess(a)
  \/ \E a \in Requesters, prompt \in Prompts, metadata \in RequestMetadata :
       GenerateResponseSend(a, prompt, metadata)
  \/ \E a \in Requesters : GenerateResponseRecv(a)

SpecIds == Init /\ [][NextIds]_vars

-----------------------------------------------------------------------------
(* The conversation: the coordinator, the agents' run loops and the worker *)

\* the participant lists a conversation is started with
Personas == { <<[id |-> "A"], [id |-> "B"]>>, <<[id |-> "B"]>> }
UserContents == {"Hello"}

\* a task for an agent's run loop, sent by a requester that waits on llm_responses
AgentTasks == { json_dumps([task |-> "generate_response", payload |-> prompt,
                            response_queue |-> DEFAULT_RESPONSE_QUEUE]) :
                  prompt \in Prompts }

\* the coordinator's owner connects its queue manager, starts and ends
\* conversations and routes user messages; the agents run their loops; the
\* agents' response queues are fetched from
NextSys ==
  \/ \E personas \in Personas : StartConversation(personas)
  \/ EndConversation
  \/ \E content \in UserContents, faults \in SUBSET Agents : RouteUserMessage(content, faults)
  \/ Connect("coordinator")
  \/ \E a \in Agents : RunStart(a)
  \/ \E a \in Agents : Poll(a)
  \/ \E a \in Agents : ClientProcess(a)
  \/ \E a \in Agents : GetMessage(a, None)
  \/ \E a \in Agents, task \in AgentTasks : ExternalPublish(TaskQueueOf(a), task)

Spec == Init /\ [][NextSys]_vars

\* the agents' run loops keep polling and keep processing what they popped
FairSpec ==
  /\ Spec
  /\ \A a \in Agents : WF_vars(Poll(a))
  /\ \A a \in Agents : WF_vars(ClientProcess(a))

-----------------------------------------------------------------------------
(* The life of an agent in main(): client.connect(), then the background task
   run_client(client) with the client's run loop, cancelled at the end *)

NextLife ==
  \/ BrokerChange
  \/ \E a \in Requesters : Connect(a)
  \/ \E a \in Requesters : RunStart(a)
  \/ \E a \in Requesters : Poll(a)
  \/ \E a \in Requesters : Retry(a)
  \/ \E a \in Requesters : ClientProcess(a)
  \/ \E a \in Requesters : Cancel(a)
  \/ \E a \in Requesters, task \in AgentTasks : ExternalPublish(TaskQueueOf(a), task)

SpecLife == Init /\ [][NextLife]_vars

-----------------------------------------------------------------------------
(* The shared task queue: the run loops of the coordinator and of the worker
   both consume llm_tasks *)

NextTasks ==
  \/ \E personas \in Personas : StartConversation(personas)
  \/ EndConversation
  \/ \E c \in {"coordinator", "worker"} : RunStart(c)
  \/ \E c \in {"coordinator", "worker"} : Poll(c)
  \/ WorkerProcess
  \/ CoordinatorProcess
  \/ \E task \in WorkerTasks : ExternalPublish(DEFAULT_TASK_QUEUE, task)
  \/ \E a \in Requesters : Connect(a)
  \/ \E a \in Requesters : GetMessage(a, None)

SpecTasks == Init /\ [][NextTasks]_vars

-----------------------------------------------------------------------------
(* The run loops of an agent and of the worker, with a broker that comes and
   goes and with cancellation *)

Runners == {"A", "worker"}

\* what reaches the run loops: tasks they answer, a task type the agent does
\* not know, and bytes that are no JSON
RunTasks(c) ==
  IF c = "worker" THEN WorkerTasks \cup {RawBytes}
  ELSE AgentTasks \cup {json_dumps([task |-> "summarize"]), RawBytes}

NextRun ==
  \/ BrokerChange
  \/ \E c \in Runners : RunStart(c)
  \/ \E c \in Runners : Poll(c)
  \/ \E c \in Runners : Retry(c)
  \/ \E c \in Runners : Cancel(c)
  \/ \E a \in Runners \cap Agents : ClientProcess(a)
  \/ WorkerProcess
  \/ \E c \in Runners : \E task \in RunTasks(c) : ExternalPublish(qm[c].task_queue, task)

SpecRun == Init /\ [][NextRun]_vars

\* the run loops go on: pops are made, back-off sleeps end, payloads in hand
\* are processed
FairRun ==
  /\ SpecRun
  /\ \A c \in Runners : WF_vars(Poll(c))
  /\ \A c \in Runners : WF_vars(Retry(c))
  /\ \A a \in Runners \cap Agents : WF_vars(ClientProcess(a))
  /\ WF_vars(WorkerProcess)

-----------------------------------------------------------------------------
(* The coordinator: its run loop, its history and its callbacks *)

\* payloads that reach the coordinator's run loop: bytes that are no JSON, an
\* object without role, one without content, one whose role is outside the
\* enum, and a message
CoordPayloads ==
  { RawBytes,
    json_dumps([content |-> "Hello"]),
    json_dumps([role |-> "user"]),
    json_dumps([role |-> "error", content |-> "HTTPError"]),
    json_dumps([role |-> "assistant", content |-> "Hi", metadata |-> [persona_id |-> "B"]]) }

\* messages the owner adds to the history
OwnerMessages ==
  { [role |-> "user", content |-> "Hello", metadata |-> NoMetadata],
    [role |-> "assistant", content |-> "Hi", metadata |-> NoMetadata] }

Callbacks == {"cb1", "cb2"}

NextCoord ==
  \/ \E personas \in Personas : StartConversation(personas)
  \/ EndConversation
  \/ RunStart("coordinator")
  \/ Poll("coordinator")
  \/ CoordinatorProcess
  \/ \E payload \in CoordPayloads : ExternalPublish(DEFAULT_TASK_QUEUE, payload)

SpecCoord == Init /\ [][NextCoord]_vars

\* payloads of the commands the coordinator understands, and a user message
CommandPayloads ==
  { json_dumps([role |-> "system", content |-> "start",
                metadata |-> [command |-> "start_conversation", personas |-> <<[id |-> "A"]>>]]),
    json_dumps([role |-> "system", content |-> "end",
                metadata |-> [command |-> "end_conversation"]]),
    json_dumps([role |-> "user", content |-> "Hello"]) }

\* the coordinator's run loop fed with commands, its owner starting and ending
\* conversations
NextIdle ==
  \/ \E personas \in Personas : StartConversation(personas)
  \/ EndConversation
  \/ RunStart("coordinator")
  \/ Poll("coordinator")
  \/ CoordinatorProcess
  \/ \E payload \in CommandPayloads : ExternalPublish(DEFAULT_TASK_QUEUE, payload)

SpecIdle == Init /\ [][NextIdle]_vars

\* a participant list with a persona that has no id
PersonasWithoutId == { <<[id |-> "A"], [name |-> "B"]>> }

\* assistant messages handed to handle_assistant_message: attributed to B,
\* attributed to A, attributed to nobody, and without metadata
AssistantMessages ==
  { [role |-> "assistant", content |-> "Hi", metadata |-> md] :
      md \in { [persona_id |-> "B"], [persona_id |-> "A"], EmptyDict, NoMetadata } }

NextAssist ==
  \/ Tick
  \/ \E personas \in Personas \cup PersonasWithoutId : StartConversation(personas)
  \/ EndConversation
  \/ \E message \in AssistantMessages : HandleAssistantMessage(message)
  \/ \E message \in AssistantMessages : AddMessage(message)
  \/ ClearMessages

SpecAssist == Init /\ [][NextAssist]_vars

\* the history and the callbacks, driven by the coordinator's owner
NextHist ==
  \/ \E personas \in Personas \cup PersonasWithoutId : StartConversation(personas)
  \/ EndConversation
  \/ \E message \in OwnerMessages : AddMessage(message)
  \/ ClearMessages
  \/ \E callback \in Callbacks : RegisterCallback(callback)

SpecHist == Init /\ [][NextHist]_vars

-----------------------------------------------------------------------------
(* main()'s dialogue, from the state main() has built when it reaches it: the
   coordinator, the director and the personas' clients connected, the
   callback registered, the conversation started, the welcome in the history *)

Welcome == [role |-> "system", content |-> "Welcome", metadata |-> [type |-> "init"]]

InitMain ==
  /\ queues = [q \in QueueNames |-> <<>>]
  /\ broker = "up"
  /\ now = 0
  /\ qm = [c \in Components |->
            IF c \in Clients THEN [LLMClientInit(c) EXCEPT !.redis_client = "client"]
            ELSE IF c = "coordinator"
            THEN [QueueConnectionManagerInit EXCEPT !.redis_client = "client"]
            ELSE QueueConnectionManagerInit]
  /\ verified = [c \in Components |-> c \in Clients \cup {"coordinator"}]
  /\ last = NoCall
  /\ loop = [c \in Components |-> IdleLoop]
  /\ call = [a \in Clients |-> IdleCall]
  /\ cm = [ConversationManagerInit EXCEPT
             !.message_callbacks = <<"message_callback">>,
             !.messages = <<Welcome>>,
             !.active_personas = <<[id |-> "A", last_message_time |-> 0],
                                   [id |-> "B", last_message_time |-> 0]>>,
             !.conversation_active = TRUE]
  /\ handled = NothingHandled
  /\ notified = NothingNotified
  /\ dialogue = NoDialogue
  /\ dstate = NoDialogueState
  /\ parsed = NothingParsed

\* what the model backend answers, pushed on a client's response queue
DialogueResponses == { json_dumps([role |-> "assistant", content |-> "Hi"]) }

NextMain ==
  \/ BrokerChange
  \/ Tick
  \/ DialogueBegin
  \/ TurnSend
  \/ TurnRecv
  \/ ConclusionSend
  \/ ConclusionRecv
  \/ \E a \in Clients, response \in DialogueResponses :
       ExternalPublish(ResponseQueueOf(a), response)

SpecMain == InitMain /\ [][NextMain]_vars

-----------------------------------------------------------------------------
(* Claims about the broker connection, checked under SpecConn *)

QueueOps == {"publish_message", "get_message", "message_consumer"}

\* C8: push, popBlocking and consume invoked while the connection is not
\* connected (no connect() has succeeded since construction or since the last
\* disconnect) fail immediately with an error and perform no broker operation.
C8_FailFastWhenNotConnected ==
  (last.op \in QueueOps /\ ~verified[last.c])
    => (last.raised # NoError /\ last.cmds = <<>>)

\* C9: connect() fails with ConnectionError whenever the ping of the newly
\* opened broker connection fails, whatever the ping raised.
C9_ConnectFailsWithConnectionError ==
  (last.op = "connect" /\ last.raised # NoError) => last.raised = "ConnectionError"

\* C10: disconnect() is idempotent: a disconnect that completes leaves no broker
\* client, and a disconnect on a connection that holds no client (disconnected
\* before, or never connected) performs no broker operation, raises nothing and
\* leaves the connection without a client.
C10_DisconnectIdempotent ==
  /\ (last.op = "disconnect" /\ last.raised = NoError)
        => (qm[last.c].redis_client = None /\ ~verified[last.c])
  /\ (last.op = "disconnect" /\ ~last.held)
        => (last.cmds = <<>> /\ last.raised = NoError /\ qm[last.c].redis_client = None)

\* a disconnect was called on a connection that had been connected and
\* disconnected before: nothing held, nothing sent, nothing raised
C10_Witness ==
  /\ last.op = "disconnect" /\ ~last.held /\ last.cmds = <<>>
  /\ loop["conn"].pc = "consuming"

-----------------------------------------------------------------------------
(* Claims about generate_response (sendRequest), checked under SpecReq *)

\* C2: every response returned by generate_response answers the request this
\* call sent: the request_id of the envelope it popped equals the request_id of
\* the Task Envelope it published.
C2_ResponseCorrelated ==
  \A a \in Agents :
    call[a].pc = "returned"
      => Get(call[a].popped.body, "request_id", None) = call[a].request["request_id"]

\* C6: a generate_response whose request was published and whose pop waited out
\* the timeout without a payload fails, and fails with TimeoutError.
C6_TimeoutError ==
  \A a \in Agents :
    (call[a].sent /\ call[a].pc \in {"returned", "raised"}
       /\ call[a].pop_raised = NoError /\ call[a].popped = NoPayload)
      => (call[a].pc = "raised" /\ call[a].raised = "TimeoutError")

\* an agent's request went out, nothing arrived, the call failed
C6_Witness ==
  /\ call["A"].sent /\ call["A"].pc = "raised" /\ call["A"].popped = NoPayload
  /\ call["A"].pop_raised = NoError /\ broker = "up" /\ queues[TaskQueueOf("A")] # <<>>

\* C7: generate_response fails with TimeoutError when the payload it popped
\* fails to deserialize into a Message.
C7_DeserializeFailureIsTimeoutError ==
  \A a \in Agents :
    (call[a].pc = "raised" /\ call[a].popped # NoPayload)
      => call[a].raised = "TimeoutError"

-----------------------------------------------------------------------------
(* Claims about the conversation and the run loops, checked under Spec,
   FairSpec and SpecTasks *)

\* the payloads of a list that are JSON objects
Envelopes(q) == { queues[q][i].body : i \in {j \in 1..Len(queues[q]) : queues[q][j].kind = "json"} }

\* participants A and B are registered, the conversation is active, the
\* envelope routed for "Hello" is on A's task queue and A's run loop is consuming
C1_Routed ==
  /\ cm.conversation_active
  /\ Keys(cm.active_personas) = {"A", "B"}
  /\ broker = "up"
  /\ loop["A"].pc = "consuming"
  /\ \E e \in Envelopes(TaskQueueOf("A")) :
       Get(e, "content", None) = "Hello" /\ Get(e, "persona_id", None) = "A"

\* a Response Envelope with content "Hi" and role "assistant" is on A's
\* response queue, for a fetch to return
C1_Answered ==
  \E e \in Envelopes(ResponseQueueOf("A")) :
    Get(e, "content", None) = "Hi" /\ Get(e, "role", None) = "assistant"

\* C1: with A and B registered and the conversation active, once the coordinator
\* has routed the user message "Hello" and A's agent loop is running, a Response
\* Envelope with content "Hi" and role "assistant" eventually is on A's response
\* queue (llm_responses_A), where a fetch returns it.
C1_HelloAnsweredByHi == C1_Routed ~> C1_Answered

\* C3: every Task Envelope a run loop has consumed was consumed by a loop that
\* invoked the model backend for it: no loop (the coordinator's, or an agent's
\* own) consumes a Task Envelope and drops it without invoking the backend.
C3_TaskConsumedByBackendLoop ==
  (handled.by # None /\ handled.task) => handled.backend

C5_ResponseToNamedQueue ==
  (handled.by \in Agents \cup {"worker"} /\ handled.sent # <<>>)
    => handled.sent = << IF handled.names = None THEN DEFAULT_RESPONSE_QUEUE
                         ELSE handled.names >>

-----------------------------------------------------------------------------
(* Further claims about the broker connection, checked under SpecConn *)

\* C11: disconnect() never raises to its caller: whatever close() of the broker
\* client raised, the disconnect call raises nothing and leaves the connection
\* without a client.
C11_DisconnectNeverRaises ==
  last.op = "disconnect"
    => (last.raised = NoError /\ qm[last.c].redis_client = None /\ ~verified[last.c])
\* C12: a get_message on a verified connection to a working broker, on a list
\* that is empty, raises nothing, returns None and leaves every list as it was;
\* get_response on top of it returns None as well.
C12_EmptyPopReturnsNone ==
  [][\A q \in ConnQueues :
       ( /\ GetMessage("conn", q)
         /\ verified["conn"] /\ broker = "up"
         /\ queues[IF q = None THEN qm["conn"].response_queue ELSE q] = <<>> )
       => ( /\ queues' = queues
            /\ last'.raised = NoError /\ last'.value = NoPayload
            /\ LET g == get_response(get_message("conn", queues, q)) IN
                 g.raised = NoError /\ g.none )]_vars

\* a pop on an empty list of a working broker returned None
C12_Witness ==
  /\ last.op = "get_message" /\ last.value = NoPayload /\ last.raised = NoError
  /\ last.cmds = <<"blpop">>
  /\ verified["conn"] /\ broker = "up"
  /\ \A q \in QueueNames : queues[q] = <<>>
  /\ loop["conn"].pc = "idle"
C14_ConsumerSurvivesBrokerErrors ==
  /\ [][loop["conn"].pc \in {"consuming", "backoff"}
          => \/ loop'["conn"].pc \in {"consuming", "backoff", "processing"}
             \/ ConsumerCancel("conn")]_vars
  /\ [][(loop["conn"].pc = "consuming" /\ loop'["conn"] # loop["conn"]
           /\ get_message("conn", queues, qm["conn"].task_queue).raised # NoError)
          => \/ loop'["conn"].pc = "backoff"
             \/ ConsumerCancel("conn")]_vars
  /\ []( ( /\ loop["conn"].pc \in {"consuming", "backoff"}
           /\ queues[qm["conn"].task_queue] # <<>>
           /\ [](broker = "up" /\ ~not_connected("conn")) )
         => <>(loop["conn"].pc \in {"processing", "done"}) )

\* the consumer is in its back-off sleep after a pop that failed on a broker
\* that does not work, with a payload waiting on its list
C14_Witness ==
  /\ loop["conn"].pc = "backoff"
  /\ broker = "refused" /\ ~not_connected("conn")
  /\ queues[qm["conn"].task_queue] # <<>>

-----------------------------------------------------------------------------
(* Claims about the run loops, checked under SpecRun and FairRun *)

\* C15: when the broker becomes unavailable for good while a run loop is
\* consuming, the run loop halts: run() ends (having disconnected, and raising
\* the failure to its caller).
C15_RunHaltsWhenBrokerUnavailable ==
  \A c \in Runners :
    []( (loop[c].pc \in {"consuming", "backoff"} /\ [](broker = "refused"))
        => <>(loop[c].pc = "done") )

\* C16: an agent's run() that connected and has ended (by cancellation at any
\* point of its loop, or by an error) leaves the agent disconnected: its
\* connection holds no broker client.
C16_RunEndsDisconnected ==
  \A a \in Agents :
    (loop[a].pc = "done" /\ loop[a].raised = NoError)
      => (qm[a].redis_client = None /\ ~verified[a])

\* C17: processing one task never ends the run loop of an agent or of the
\* worker: whatever the payload and whatever fails while it is processed, the
\* loop takes the next turn of its consumer.
C17_TaskFailureKeepsLoopRunning ==
  [][ /\ \A a \in Agents : ClientProcess(a) => loop'[a].pc = "consuming"
      /\ WorkerProcess => loop'["worker"].pc = "consuming" ]_vars

-----------------------------------------------------------------------------
(* Claims about the coordinator, checked under SpecCoord *)

\* C18: a malformed payload (no JSON, role or content missing, role outside the
\* enum) processed by the coordinator's run loop is dropped: the history and
\* every other part of the coordinator stay as they were, nothing is published,
\* and the loop takes the next turn of its consumer.
C18_MalformedPayloadDropped ==
  [][ (CoordinatorProcess /\ ~WellFormed(json_loads(loop["coordinator"].cur)))
        => /\ cm' = cm /\ queues' = queues /\ notified' = notified
           /\ loop'["coordinator"].pc = "consuming"
           /\ loop'["coordinator"].raised = NoError ]_vars

\* the coordinator's loop, conversation active, has processed a malformed
\* payload and is consuming again, the history still empty
C18_Witness ==
  /\ handled.by = "coordinator" /\ ~handled.wellformed
  /\ cm.conversation_active /\ cm.active_personas # <<>>
  /\ cm.messages = <<>> /\ ~notified.called
  /\ loop["coordinator"].pc = "consuming"

-----------------------------------------------------------------------------
(* Claims about the history and the callbacks, checked under SpecHist *)

\* C19: the history get_all_messages returns is the sequence of the messages
\* passed to add_message, in call order: add_message appends its message at
\* the end, and a step that changes the history is an add_message or a
\* clear_messages.
C19_HistoryInCallOrder ==
  [][ /\ \A m \in OwnerMessages :
           AddMessage(m) => get_all_messages(cm') = Append(get_all_messages(cm), m)
      /\ \/ get_all_messages(cm') = get_all_messages(cm)
         \/ \E m \in OwnerMessages : AddMessage(m)
         \/ ClearMessages ]_vars

\* two different messages were added, the user's first, and a conversation was
\* started since: the history holds them in that order
C19_Witness ==
  /\ get_all_messages(cm) =
       << [role |-> "user", content |-> "Hello", metadata |-> NoMetadata],
          [role |-> "assistant", content |-> "Hi", metadata |-> NoMetadata] >>
  /\ cm.conversation_active
  /\ notified.called /\ notified.message.role = "assistant"

\* C20: an add_message invokes every callback registered at that time exactly
\* once, in registration order, whichever of them raised, and raises nothing.
C20_EveryObserverNotifiedOnce ==
  notified.called
    => (notified.invoked = notified.registered /\ notified.raised = NoError)

\* two callbacks were registered, the first raised, and both were invoked
C20_Witness ==
  /\ notified.called
  /\ notified.registered = <<"cb1", "cb2">>
  /\ notified.outcomes[1] = "Exception"
  /\ notified.invoked = <<"cb1", "cb2">>
  /\ cm.messages # <<>>

-----------------------------------------------------------------------------
(* Claims about the participants of a conversation, checked under SpecHist *)

\* C21: when start_conversation(personas) returns, the active participants are
\* exactly the given ones, each with a last_message_time, and the conversation
\* is marked active.
C21_StartInstallsAllParticipants ==
  [][ \A personas \in Personas \cup PersonasWithoutId :
        StartConversation(personas)
          => /\ \A i \in 1..Len(personas) :
                  /\ "id" \in DOMAIN personas[i]
                  /\ personas[i]["id"] \in Keys(cm'.active_personas)
             /\ \A i \in 1..Len(cm'.active_personas) :
                  /\ \E j \in 1..Len(personas) :
                        /\ "id" \in DOMAIN personas[j]
                        /\ personas[j]["id"] = cm'.active_personas[i]["id"]
                  /\ "last_message_time" \in DOMAIN cm'.active_personas[i]
             /\ cm'.conversation_active ]_vars

\* C22: end_conversation leaves no active participant and an inactive
\* conversation, whatever start_conversation installed before; called on a
\* conversation that is already ended it changes nothing of the coordinator.
C22_EndAfterStartAndEndTwice ==
  [][ EndConversation
        => /\ cm'.active_personas = <<>>
           /\ ~cm'.conversation_active
           /\ cm'.messages = cm.messages
           /\ cm'.message_callbacks = cm.message_callbacks
           /\ (last.op = "end_conversation" => cm' = cm) ]_vars

\* end_conversation has just ended a conversation that start_conversation had
\* marked active
C22_Witness ==
  /\ last.op = "end_conversation" /\ last.value.conversation_active
  /\ cm.active_personas = <<>> /\ ~cm.conversation_active

-----------------------------------------------------------------------------
(* Claims about the routing of a user message, checked under Spec *)

\* C23: handle_user_message on a connected coordinator appends exactly one
\* envelope to llm_tasks_<id> of every active participant whose own publish
\* does not fail, the envelope naming llm_responses_<id>; every other list is
\* left as it was, and the call returns without any pop.
C23_OneEnvelopePerActiveParticipant ==
  [][ \A content \in UserContents, faults \in SUBSET Agents :
        (RouteUserMessage(content, faults) /\ ~not_connected("coordinator"))
          => /\ \A id \in Keys(cm.active_personas) \ faults :
                  /\ queues'[TaskQueueOf(id)]
                       = Append(queues[TaskQueueOf(id)],
                                json_dumps(RoutedEnvelope(content, id)))
                  /\ RoutedEnvelope(content, id).response_queue = ResponseQueueOf(id)
             /\ \A q \in QueueNames \ {TaskQueueOf(id) : id \in Keys(cm.active_personas)} :
                  queues'[q] = queues[q] ]_vars

-----------------------------------------------------------------------------
(* Claims about main()'s dialogue, checked under SpecMain *)

\* C24: a persona's turn never ends the dialogue: whatever the client's
\* generate_response did (a response, a timeout, an error), the dialogue goes on
\* to the next client, the next round or the conclusion.
C24_FailedTurnDoesNotEndDialogue ==
  [][ (TurnSend \/ TurnRecv)
        => /\ dialogue'.pc \in {"turn", "waiting", "conclusion"}
           /\ dialogue'.raised = NoError ]_vars

-----------------------------------------------------------------------------
(* Claims about construction, checked under SpecNew *)

\* C25: LLMClient(client_id=X) yields an agent whose connection publishes by
\* default to llm_tasks_X and pops by default from llm_responses_X; a
\* QueueConnectionManager made without an id publishes by default to llm_tasks
\* and pops by default from llm_responses.
C25_DefaultQueuesFollowTheId ==
  [][ /\ \A a \in Agents :
           NewLLMClient(a)
             => /\ last'.raised = NoError
                /\ last'.value = [task_queue |-> TaskQueueOf(a),
                                  response_queue |-> ResponseQueueOf(a)]
      /\ NewQueueConnectionManager("conn")
           => /\ last'.raised = NoError
              /\ qm'["conn"].task_queue = "llm_tasks"
              /\ qm'["conn"].response_queue = "llm_responses"
      /\ \A m \in ConnMessages :
           (PublishMessage("conn", m, None) /\ last'.raised = NoError)
             => queues' = [queues EXCEPT !["llm_tasks"] = Append(@, json_dumps(m))]
      /\ (GetMessage("conn", None) /\ last'.value # NoPayload)
           => /\ last'.value = Head(queues["llm_responses"])
              /\ queues' = [queues EXCEPT !["llm_responses"] = Tail(@)] ]_vars

-----------------------------------------------------------------------------
(* Further claims about the run loops, checked under SpecRun *)

\* C26: a run() whose connect() fails raises to its owner what connect()
\* raised and has consumed nothing, whether it is the run() of an agent or of
\* the worker.
C26_ConnectFailurePropagatesFromRun ==
  [][ \A c \in Runners :
        (RunStart(c) /\ connect(c).raised # NoError)
          => /\ loop'[c].pc = "done"
             /\ loop'[c].raised = connect(c).raised
             /\ loop'[c].cur = NoPayload
             /\ queues' = queues ]_vars

-----------------------------------------------------------------------------
(* Claims about DialogueState, checked under SpecState *)

\* C27: should_conclude() answers true exactly when the time elapsed since
\* start_time has reached the configured duration, or exchange_count has
\* reached the configured maximum, or is_concluded is set; it changes nothing
\* of the state, and asked again with the same state and the same clock
\* reading it gives the same answer.
C27_ShouldConclude ==
  /\ [] ( (dstate.constructed /\ dstate.asked)
            => LET r == dstate.read IN
               dstate.answer
                 <=> \/ r.now >= r.start_time + r.config.duration_minutes * 60
                     \/ r.exchange_count >= r.config.exchange_count
                     \/ r.is_concluded )
  /\ [][ ShouldConclude
           => /\ Reading(dstate)' = Reading(dstate)
              /\ (dstate.asked /\ dstate.read = Reading(dstate))
                   => dstate'.answer = dstate.answer ]_vars

\* should_conclude() has answered true for no other reason than the time: the
\* configured duration has just been reached
C27_Witness ==
  /\ dstate.constructed /\ dstate.asked /\ dstate.answer
  /\ dstate.read.now = dstate.read.start_time + dstate.read.config.duration_minutes * 60
  /\ dstate.read.exchange_count < dstate.read.config.exchange_count
  /\ ~dstate.read.is_concluded

-----------------------------------------------------------------------------
(* Claims about assistant messages, checked under SpecAssist *)

\* the persona_id an assistant message carries in its metadata, None if it
\* carries none
AttributedTo(message) ==
  IF message.metadata = NoMetadata THEN None ELSE Get(message.metadata, "persona_id", None)

\* C28: handle_assistant_message for a message attributed to an active
\* participant sets last_message_time of that participant to the time of the
\* call and leaves every other participant as it was; for a message attributed
\* to nobody or to a participant that is not active, it leaves all
\* participants as they were. In both cases the conversation is as active as
\* it was, and nothing else of the coordinator changes.
C28_AssistantMessageStampsItsParticipant ==
  [][ \A message \in AssistantMessages :
        HandleAssistantMessage(message)
          => /\ cm'.conversation_active = cm.conversation_active
             /\ cm'.messages = cm.messages
             /\ Len(cm'.active_personas) = Len(cm.active_personas)
             /\ \A i \in 1..Len(cm.active_personas) :
                  IF cm.active_personas[i]["id"] = AttributedTo(message)
                  THEN cm'.active_personas[i]
                         = Update(cm.active_personas[i], [last_message_time |-> now])
                  ELSE cm'.active_personas[i] = cm.active_personas[i] ]_vars

\* handle_assistant_message has stamped B later than the conversation with A
\* and B had started: B carries the later time, A the time of the start
C28_Witness ==
  /\ last.op = "handle_assistant_message" /\ cm.conversation_active
  /\ \E i, j \in 1..Len(cm.active_personas) :
       /\ cm.active_personas[i]["id"] = "A" /\ cm.active_personas[j]["id"] = "B"
       /\ cm.active_personas[i]["last_message_time"] < cm.active_personas[j]["last_message_time"]

-----------------------------------------------------------------------------
(* Claims about the health monitor, checked under SpecHealth *)

\* C29: check_health raises nothing; it reports status "healthy" with
\* queue_connection "connected" when the agent holds a broker client and the
\* broker answers the ping, and status "unhealthy" with queue_connection
\* "disconnected" in every other case (the broker refuses or times out, the
\* agent never connected, the agent has disconnected).
C29_HealthFollowsThePing ==
  [][ \A a \in Agents :
        CheckHealth(a)
          => /\ last'.raised = NoError
             /\ last'.value =
                  IF qm[a].redis_client # None /\ broker = "up"
                  THEN [status |-> "healthy", queue_connection |-> "connected"]
                  ELSE [status |-> "unhealthy", queue_connection |-> "disconnected"] ]_vars

\* an agent that holds a broker client was reported unhealthy: the ping failed
C29_Witness ==
  /\ last.op = "check_health" /\ last.held /\ last.cmds = <<"ping">>
  /\ last.value = [status |-> "unhealthy", queue_connection |-> "disconnected"]

-----------------------------------------------------------------------------
(* Claims about the persona parser, checked under SpecParse *)

\* the documented default of a field
DefaultOf ==
  [ historical_context |-> "Default historical context",
    expertise_areas |-> <<"General knowledge">>,
    philosophical_stance |-> "Balanced and objective approach",
    language_pattern |-> "Clear and concise communication",
    reasoning_approach |-> "Logical and structured thinking",
    typical_references |-> <<>>,
    response_structure |-> "Organized and systematic responses",
    engagement_pattern |-> "Professional and respectful engagement",
    knowledge_boundaries |-> <<>> ]

\* the section of a field
SectionOf(f) ==
  CHOOSE s \in DOMAIN EXPECTED_SECTIONS : \E k \in 1..3 : EXPECTED_SECTIONS[s][k] = f

\* C30: a content, JSON or text, that lacks some of the nine fields is parsed
\* without an error: the persona returned is valid, carries the default of
\* every missing field, and for every missing field there is a warning that
\* names it.
C30_MissingFieldsGetDefaultsAndWarnings ==
  (parsed.called /\ parsed.content.present # PersonaFields)
    => /\ parsed.result.raised = NoError
       /\ \A f \in PersonaFields \ parsed.content.present :
            /\ parsed.result.persona[SectionOf(f)][f] = DefaultOf[f]
            /\ \E w \in 1..Len(parsed.result.warnings) :
                 \E k \in 1..Len(parsed.result.warnings[w].missing) :
                   parsed.result.warnings[w].missing[k] = f

\* the fields of the Background section
BackgroundFields == {"historical_context", "expertise_areas", "philosophical_stance"}

\* C31: a text whose only section is a well-formed Background (historical
\* context and philosophical stance longer than ten characters, two expertise
\* areas) is parsed without an error, with exactly two warnings, one for the
\* Communication and one for the Interaction section, and the defaults in the
\* fields of both sections.
C31_BackgroundOnlyTextParsesWithTwoWarnings ==
  (parsed.called /\ ~parsed.content.json /\ parsed.content.present = BackgroundFields)
    => /\ parsed.result.raised = NoError
       /\ Len(parsed.result.warnings) = 2
       /\ {parsed.result.warnings[w].section : w \in 1..Len(parsed.result.warnings)}
            = {"communication", "interaction"}
       /\ \A f \in PersonaFields \ BackgroundFields :
            parsed.result.persona[SectionOf(f)][f] = DefaultOf[f]

\* a content from which nothing can be decoded: no JSON object with a key and
\* no field line of any section
Undecodable(content) == content.data = EmptyDict /\ content.present = {}

\* a content that supplies a value the models reject: an empty list of
\* expertise areas
SuppliesInvalidValue(content) ==
  /\ "background" \in DOMAIN content.data
  /\ "expertise_areas" \in DOMAIN content.data.background
  /\ Items[content.data.background.expertise_areas] = <<>>

\* C32: a parse that fails raises PersonaParsingError, and it fails only for a
\* content that cannot be decoded at all or that supplies a value violating a
\* length or count constraint, never because a field is missing.
C32_ParseFailsOnlyUndecodableOrInvalid ==
  (parsed.called /\ parsed.result.raised # NoError)
    => /\ parsed.result.raised = "PersonaParsingError"
       /\ Undecodable(parsed.content) \/ SuppliesInvalidValue(parsed.content)

\* the fields defined for the envelopes on the wire
EnvelopeFields ==
  {"role", "content", "timestamp", "request_id", "response_queue", "model_name",
   "model_provider", "temperature", "model"}

\* C33: an envelope published to an agent's response queue and returned to the
\* agent by its fetch (get_response inside generate_response) comes back with
\* every populated field of the defined set, unchanged.
C33_EnvelopeRoundTrip ==
  \A a \in Requesters :
    call[a].pc = "returned"
      => LET sent == call[a].popped.body
             got == call[a].response
         IN \A f \in EnvelopeFields \cap DOMAIN sent :
              (f = "request_id" => sent[f] # None)
                => (f \in DOMAIN got /\ got[f] = sent[f])

\* C34: a generate_response call of an agent that publishes its Task Envelope,
\* after an earlier call of the same agent published one, gives it a request_id
\* different from the earlier one, and that request_id is the generated one
\* whatever metadata the caller passed.
C34_RequestIdsAreFresh ==
  [][\A a \in Requesters :
       (call[a].sent /\ call[a].pc # "waiting" /\ call'[a].sent /\ call'[a].pc = "waiting")
         => /\ call'[a].request.request_id # call[a].request.request_id
            /\ call'[a].request.request_id = RequestId(a)]_vars

\* C36: a connect() that raised leaves its connection disconnected: the
\* connection holds no broker client, as before any connect.
C36_FailedConnectRetainsNoClient ==
  (last.op = "connect" /\ last.raised # NoError)
    => (qm[last.c].redis_client = None /\ ~verified[last.c])

\* C35: an agent is connected only from the disconnected state: the connect()
\* at the head of the agent's run() is never made on an agent that holds a
\* broker client (the one client.connect() opened in main()); and the run loop
\* takes a payload from the task queue only while the agent holds a broker
\* client.
C35_AgentLifecycle ==
  [][\A a \in Requesters :
       /\ RunStart(a) => qm[a].redis_client = None
       /\ (Poll(a) /\ queues' # queues) => qm[a].redis_client # None]_vars

\* C37: in every state of the coordinator a conversation that is not active
\* has no active participant, also after a start_conversation that failed
\* part-way.
C37_InactiveHasNoParticipants ==
  ~cm.conversation_active => Keys(cm.active_personas) = {}

\* C38: a payload the coordinator's run loop took from its queue while the
\* conversation is inactive is discarded: the step that handles it leaves the
\* coordinator (history, participants, activity), every queue and the
\* callbacks as they were, so a start_conversation command does not activate
\* the conversation.
C38_InactiveCoordinatorDiscards ==
  [][(CoordinatorProcess /\ ~cm.conversation_active)
       => (cm' = cm /\ queues' = queues /\ notified' = notified
           /\ loop'["coordinator"].pc = "consuming")]_vars

\* the run loop handled a payload and no owner call was ever made: the
\* conversation was inactive when the payload was handled, and still is
C38_Witness ==
  /\ handled.by = "coordinator" /\ handled.wellformed
  /\ last = NoCall
  /\ ~cm.conversation_active /\ cm.messages = <<>>
  /\ queues[DEFAULT_TASK_QUEUE] = <<>>

\* the lists a step appended to, and by how many payloads
Grown == { q \in QueueNames : queues'[q] # queues[q] }

\* C39: the worker publishes at most one envelope for a task it processes;
\* when the backend failed for a task that carries response_queue, request_id
\* and content, the envelope published (none when the broker refuses the push)
\* is an error envelope at the tail of the list the task names, with the task's
\* request_id, and no assistant envelope is published.
C39_WorkerPublishesAtMostOneEnvelope ==
  [][WorkerProcess =>
       LET task == loop["worker"].cur IN
       /\ Cardinality(Grown) <= 1
       /\ \A q \in Grown : /\ Len(queues'[q]) = Len(queues[q]) + 1
                           /\ SubSeq(queues'[q], 1, Len(queues[q])) = queues[q]
       /\ ( /\ task.kind = "json"
            /\ {"response_queue", "request_id", "content"} \subseteq DOMAIN task.body
            /\ queues' = worker_process_message(queues, task, BackendFails).queues )
          => LET q == task.body.response_queue
                 sent == queues'[q][Len(queues'[q])] IN
             /\ Grown \subseteq {q}
             /\ Grown = {q} => /\ sent.kind = "json"
                               /\ sent.body.role = "error"
                               /\ sent.body.request_id = task.body.request_id]_vars

\* the worker processed a task, published no response of its own, and the
\* list the task named holds an error envelope with the task's request_id
C39_Witness ==
  /\ handled.by = "worker" /\ handled.task /\ handled.sent = <<>>
  /\ handled.names = ResponseQueueOf("A")
  /\ \E i \in 1..Len(queues[ResponseQueueOf("A")]) :
       LET p == queues[ResponseQueueOf("A")][i] IN
       p.kind = "json" /\ p.body.role = "error" /\ p.body.request_id = RequestId("A")
====
